---- MODULE Spec2Model ----
(***************************************************************************)
(* Model of the JustDAO-UI voting engine: the useVoting hook (castVote,    *)
(* hasVoted, getProposalSnapshotId, getProposalVoteTotals) and the         *)
(* optimistic vote map of VoteTab (submitVote, votedProposals).            *)
(*                                                                         *)
(* JavaScript runs one task at a time; a task gives up control only at an  *)
(* await.  Every action below is one run-to-suspension segment of the code *)
(* (an event handler, an effect, or the continuation of one await).        *)
(***************************************************************************)
EXTENDS Integers, Sequences, FiniteSets, Bags, TLC

----------------------------------------------------------------------------
(* Bounds of the model *)

NumProposals == 2
MaxTasks == 2
MaxRefresh == 1

Proposals == 0..(NumProposals - 1)

----------------------------------------------------------------------------
(* Program constants *)

AGAINST == 0
FOR == 1
ABSTAIN == 2
ACTIVE == 0

\* the states of the ledger's proposal enum: Active and one that is not
ProposalStates == {ACTIVE, 2}

\* stands for JavaScript null in lastVotedProposalId
NoProposal == 0 - 1

----------------------------------------------------------------------------
(* JavaScript values *)

\* a JavaScript number and null, as castVote may receive them for voteType
Num(n) == [type |-> "number", n |-> n]
JsNull == [type |-> "null", n |-> 0]

\* Number(x): null converts to 0, a number to itself
Number(x) == IF x.type = "null" THEN 0 ELSE x.n

\* an ethers BigNumber; safe is FALSE for a value above Number.MAX_SAFE_INTEGER
BN(n) == [safe |-> TRUE, n |-> n]
HugeBN == [safe |-> FALSE, n |-> 1]

\* BigNumber.isZero()
isZero(bn) == bn.safe /\ bn.n = 0

\* a JavaScript object used as a map: a function on the set of its keys
EmptyMap == [k \in {} |-> 0]
Put(m, k, v) == [x \in (DOMAIN m) \cup {k} |-> IF x = k THEN v ELSE m[x]]
Delete(m, k) == [x \in (DOMAIN m) \ {k} |-> m[x]]

\* an Error object: ethers errors carry reason, every Error carries message
Err(reason, message) == [reason |-> reason, message |-> message]

\* a variant that prefers the message to the reason
errorMessageFirst(err) ==
  IF err.message # "" THEN err.message
  ELSE IF err.reason # "" THEN err.reason
  ELSE "Unknown error"

\* err.reason || err.message || "Unknown error"
errorMessage(err) ==
  IF err.reason # "" THEN err.reason
  ELSE IF err.message # "" THEN err.message
  ELSE "Unknown error"

NotConnectedError == Err("", "Not connected to blockchain")
InvalidVoteTypeError ==
  Err("", "Invalid vote type. Must be 0 (Against), 1 (For), or 2 (Abstain)")
InactiveProposalError ==
  Err("", "Proposal is not active. Cannot vote on inactive proposals.")
AlreadyVotedError == Err("", "You have already voted on this proposal")
NoVotingPowerError ==
  Err("", "You don't have any voting power for this proposal. You may need to delegate to yourself or acquire tokens before the snapshot.")
\* errors raised by the provider, the wallet and the ledger
UpstreamError == Err("", "network error")
RejectedError == Err("", "user rejected transaction")
RevertError == Err("execution reverted", "transaction failed")
EncodeError == Err("invalid BigNumber value", "invalid BigNumber value")

----------------------------------------------------------------------------
(* State *)

VARIABLES
  \* the ledger
  ledgerState,      \* proposal id -> state of the proposal enum
  ledgerVotes,      \* map proposal id -> support recorded for the account
  power,            \* snapshot id -> effective voting power of the account
  \* Web3 context
  isConnected,
  contractsReady,
  refreshCounter,
  \* useVoting
  voting,           \* {loading, error, success, lastVotedProposalId}
  \* VoteTab
  proposals,        \* the proposals prop
  votingPowers,     \* proposal id -> voting power shown
  votedProposals,   \* map proposal id -> support (the optimistic map)
  \* the submissions in flight
  tasks,
  \* one call of getProposalVoteTotals: the ledger's answers and the result
  tallyIn,
  tallyOut,
  \* useDAOStats: the fetch in progress, with its locals and what it returned
  dao

ledgerVars == <<ledgerState, ledgerVotes, power>>
web3Vars == <<isConnected, contractsReady, refreshCounter>>
tabVars == <<proposals, votingPowers, votedProposals>>
tallyVars == <<tallyIn, tallyOut>>
vars == <<ledgerState, ledgerVotes, power, isConnected, contractsReady,
          refreshCounter, voting, proposals, votingPowers, votedProposals,
          tasks, tallyIn, tallyOut, dao>>

\* no fetch of useDAOStats has started
NoFetch == [pc |-> "idle"]

\* snapshot ids: 0 is what getProposalSnapshotId returns when every query
\* fails, 1 is the snapshot of the proposals' creation, 2 the current one
Snapshots == 0..2
CreationSnapshot == Snapshots \ {0, 2}
CurrentSnapshot == Snapshots \ {0, 1}

----------------------------------------------------------------------------
(* Answers of the ledger to a query: a value, or a failure of the provider *)

Ok(v) == [ok |-> TRUE, value |-> v]
FailedInt == [ok |-> FALSE, value |-> 0]
FailedBN == [ok |-> FALSE, value |-> BN(0)]
FailedSeq == [ok |-> FALSE, value |-> <<>>]

\* governance.proposalVoterInfo(p, account): the weight recorded, or zero
proposalVoterInfo(p) == IF p \in DOMAIN ledgerVotes THEN BN(100) ELSE BN(0)

\* a ProposalEvent of type 0 as queryFilter returns it: whether its data
\* decodes, and the snapshot id in it
CreationEvent(decodes, id) == [decodes |-> decodes, snapshotId |-> id]

EventResponses ==
  {FailedSeq, Ok(<<>>)} \cup
  {Ok(<<CreationEvent(d, id)>>) : d \in BOOLEAN, id \in CreationSnapshot}

CurrentSnapshotResponses == {FailedInt} \cup {Ok(id) : id \in CurrentSnapshot}

----------------------------------------------------------------------------
(* useVoting: the pure parts *)

\* the voting state while a vote is submitted, after a success, after a failure
votingInitial ==
  [loading |-> FALSE, error |-> "", success |-> FALSE,
   lastVotedProposalId |-> NoProposal]
votingLoading ==
  [loading |-> TRUE, error |-> "", success |-> FALSE,
   lastVotedProposalId |-> NoProposal]
votingSuccess(p) ==
  [loading |-> FALSE, error |-> "", success |-> TRUE,
   lastVotedProposalId |-> p]
votingFailed(err) ==
  [loading |-> FALSE, error |-> errorMessage(err), success |-> FALSE,
   lastVotedProposalId |-> NoProposal]

\* [AGAINST, FOR, ABSTAIN].includes(Number(voteType))
isValidVoteType(voteType) == Number(voteType) \in {AGAINST, FOR, ABSTAIN}

\* proposalState !== 0 is the failure
isActiveState(proposalState) == proposalState = ACTIVE

\* C5 mutant: the check of the voting power is missing
hasPowerUnchecked(votingPower) == TRUE

\* votingPower.isZero() is the failure
hasPower(votingPower) == ~isZero(votingPower)

\* hasVoted: false without a session, false when the query fails
hasVoted(connected, ready, hasAccount, hasGovernance, info) ==
  IF ~connected \/ ~ready \/ ~hasAccount THEN FALSE
  ELSE IF ~hasGovernance THEN FALSE
  ELSE IF ~info.ok THEN FALSE
  ELSE ~isZero(info.value)

\* C20 mutant: no fallback to the current snapshot id after an event that
\* is absent or does not decode
getProposalSnapshotIdNoFallback(hasGovernance, events, current1, current2) ==
  IF ~hasGovernance THEN 0
  ELSE IF events.ok
  THEN IF Len(events.value) > 0 /\ events.value[1].decodes
       THEN events.value[1].snapshotId
       ELSE 0
  ELSE IF current1.ok THEN current1.value
  ELSE 0

\* getProposalSnapshotId: the id of the first creation event when it decodes,
\* else the current snapshot id (asked once more when that query fails after
\* a successful event query), else 0
getProposalSnapshotId(hasGovernance, events, current1, current2) ==
  IF ~hasGovernance THEN 0
  ELSE IF events.ok
  THEN IF Len(events.value) > 0 /\ events.value[1].decodes
       THEN events.value[1].snapshotId
       ELSE IF current1.ok THEN current1.value
       ELSE IF current2.ok THEN current2.value
       ELSE 0
  ELSE IF current1.ok THEN current1.value
  ELSE 0

\* the contract method encodes voteType as a uint8: only a number does
encodesAsUint8(voteType) == voteType.type = "number" /\ voteType.n \in 0..255

----------------------------------------------------------------------------
(* VoteTab: the pure parts *)

\* the proposals prop as the list loader derives it from the ledger
loadProposals ==
  [p \in Proposals |->
     [state |-> ledgerState[p],
      hasVoted |-> p \in DOMAIN ledgerVotes,
      votedYes |-> p \in DOMAIN ledgerVotes /\ ledgerVotes[p] = FOR,
      votedNo |-> p \in DOMAIN ledgerVotes /\ ledgerVotes[p] = AGAINST]]

\* the effect that initialises votedProposals from the proposals prop
initVotedProposals(props) ==
  [p \in {q \in Proposals : props[q].hasVoted} |->
     IF props[p].votedNo THEN AGAINST
     ELSE IF props[p].votedYes THEN FOR
     ELSE ABSTAIN]

\* proposal.hasVoted || votedProposals[proposal.id] !== undefined
hasUserVoted(p) == proposals[p].hasVoted \/ p \in DOMAIN votedProposals

\* the vote buttons of proposal p are rendered (the tab's own loading flag is
\* true only inside the fetch of the voting powers, which ReloadProposals
\* runs to its end)
buttonsShown(p) ==
  /\ ~voting.loading
  /\ proposals[p].state = ACTIVE
  /\ ~hasUserVoted(p)
  /\ ~isZero(votingPowers[p])

\* parseFloat(x) || 0: what is not a number gives NaN, and NaN gives 0
parseFloatOrZero(x) == IF x.type = "number" THEN x.n ELSE 0

\* calculateVotePercentages(proposal); a percentage is kept as the fraction
\* times100 / over, as in getProposalVoteTotals
calculateVotePercentages(proposal) ==
  LET yesVotes == parseFloatOrZero(proposal.yesVotes)
      noVotes == parseFloatOrZero(proposal.noVotes)
      abstainVotes == parseFloatOrZero(proposal.abstainVotes)
      totalVotes == yesVotes + noVotes + abstainVotes
      percent(x) == IF totalVotes > 0
                    THEN [times100 |-> 100 * x, over |-> totalVotes]
                    ELSE [times100 |-> 0, over |-> 1]
  IN [yesVotes |-> yesVotes, noVotes |-> noVotes,
      abstainVotes |-> abstainVotes, totalVotes |-> totalVotes,
      yesPercentage |-> percent(yesVotes),
      noPercentage |-> percent(noVotes),
      abstainPercentage |-> percent(abstainVotes)]

\* the vote counts a proposal of the list can carry: a number, or nothing
VoteCounts == {JsNull, Num(0), Num(1), Num(2)}
ProposalVoteData ==
  [yesVotes : VoteCounts, noVotes : VoteCounts, abstainVotes : VoteCounts]

----------------------------------------------------------------------------
(* The submissions in flight: a bag of the castVote invocations that wait  *)
(* at an await, each with its local variables and, for a vote from VoteTab, *)
(* the votedProposals of the render whose handler started it               *)

Task(pc, p, voteType, fromTab, snap) ==
  [pc |-> pc, proposalId |-> p, voteType |-> voteType, fromTab |-> fromTab,
   snap |-> snap, proposalState |-> NoProposal, snapshotId |-> 0,
   votingPower |-> BN(0)]

InFlight == BagToSet(tasks)
Settle(k) == tasks (-) SetToBag({k})
Resume(k, k2) == (tasks (-) SetToBag({k})) (+) SetToBag({k2})

\* the catch of submitVote: the map as the handler's render saw it, less p
rollback(snap, p) == Delete(snap, p)

\* a variant whose catch block submits the transaction once more
ThrowAndRetry(k, err) ==
  /\ voting' = votingFailed(err)
  /\ votedProposals' = votedProposals
  /\ tasks' = IF k.pc = "wait" THEN Resume(k, [k EXCEPT !.pc = "castVote"])
              ELSE Settle(k)

\* castVote's catch block, then (for a vote from VoteTab) submitVote's
Throw(k, err) ==
  /\ voting' = votingFailed(err)
  /\ votedProposals' =
       IF k.fromTab THEN rollback(k.snap, k.proposalId) ELSE votedProposals
  /\ tasks' = Settle(k)

Goto(k, k2) ==
  /\ tasks' = Resume(k, k2)
  /\ UNCHANGED <<voting, votedProposals>>

\* castVote(p, voteType) up to its first await; from VoteTab it is called by
\* submitVote after the optimistic entry is written
Invoke(p, voteType, fromTab) ==
  LET snap == IF fromTab THEN votedProposals ELSE EmptyMap
  IN /\ BagCardinality(tasks) < MaxTasks
     /\ IF ~(isConnected /\ contractsReady)
        THEN /\ votedProposals' =
                  IF fromTab THEN rollback(snap, p) ELSE votedProposals
             /\ UNCHANGED <<voting, tasks>>
        ELSE IF ~isValidVoteType(voteType)
        THEN /\ voting' = votingFailed(InvalidVoteTypeError)
             /\ votedProposals' =
                  IF fromTab THEN rollback(snap, p) ELSE votedProposals
             /\ UNCHANGED tasks
        ELSE /\ voting' = votingLoading
             /\ votedProposals' =
                  IF fromTab THEN Put(snap, p, voteType.n) ELSE votedProposals
             /\ tasks' = tasks (+) SetToBag(
                  {Task("getProposalState", p, voteType, fromTab, snap)})
     /\ UNCHANGED <<ledgerVars, web3Vars, proposals, votingPowers, tallyVars, dao>>

\* a click on one of the three vote buttons of proposal p
SubmitVote(p, support) ==
  /\ buttonsShown(p)
  /\ Invoke(p, Num(support), TRUE)

\* castVote called by another consumer of the hook, with any argument
CastVoteDirect(p, voteType) ==
  Invoke(p, voteType, FALSE)

\* await contracts.governance.getProposalState(proposalId)
StepGetProposalState(k) ==
  /\ k.pc = "getProposalState"
  /\ \E r \in {Ok(ledgerState[k.proposalId]), FailedInt} :
       IF ~r.ok THEN Throw(k, UpstreamError)
       ELSE IF ~isActiveState(r.value) THEN Throw(k, InactiveProposalError)
       ELSE Goto(k, [k EXCEPT !.pc = "hasVoted", !.proposalState = r.value])
  /\ UNCHANGED <<ledgerVars, web3Vars, proposals, votingPowers, tallyVars, dao>>

\* await hasVoted(proposalId); the closure is the one of the render in which
\* castVote passed its connection check
StepHasVoted(k) ==
  /\ k.pc = "hasVoted"
  /\ \E r \in {Ok(proposalVoterInfo(k.proposalId)), FailedBN} :
       IF hasVoted(TRUE, TRUE, TRUE, TRUE, r)
       THEN Throw(k, AlreadyVotedError)
       ELSE Goto(k, [k EXCEPT !.pc = "getProposalSnapshotId"])
  /\ UNCHANGED <<ledgerVars, web3Vars, proposals, votingPowers, tallyVars, dao>>

\* await getProposalSnapshotId(proposalId)
StepGetProposalSnapshotId(k) ==
  /\ k.pc = "getProposalSnapshotId"
  /\ \E ev \in EventResponses, c1 \in CurrentSnapshotResponses,
        c2 \in CurrentSnapshotResponses :
       Goto(k, [k EXCEPT !.pc = "getEffectiveVotingPower",
                         !.snapshotId = getProposalSnapshotId(TRUE, ev, c1, c2)])
  /\ UNCHANGED <<ledgerVars, web3Vars, proposals, votingPowers, tallyVars, dao>>

\* await contracts.token.getEffectiveVotingPower(account, snapshotId)
StepGetEffectiveVotingPower(k) ==
  /\ k.pc = "getEffectiveVotingPower"
  /\ \E r \in {Ok(power[k.snapshotId]), FailedBN} :
       IF ~r.ok THEN Throw(k, UpstreamError)
       ELSE IF ~hasPower(r.value) THEN Throw(k, NoVotingPowerError)
       ELSE Goto(k, [k EXCEPT !.pc = "castVote", !.votingPower = r.value])
  /\ UNCHANGED <<ledgerVars, web3Vars, proposals, votingPowers, tallyVars, dao>>

\* await contracts.governance.castVote(proposalId, voteType, {gasLimit}):
\* the wallet signs and sends the transaction, or the call is rejected
StepCastVote(k) ==
  /\ k.pc = "castVote"
  /\ IF ~encodesAsUint8(k.voteType) THEN Throw(k, EncodeError)
     ELSE \/ Throw(k, RejectedError)
          \/ Goto(k, [k EXCEPT !.pc = "wait"])
  /\ UNCHANGED <<ledgerVars, web3Vars, proposals, votingPowers, tallyVars, dao>>

\* the governance contract takes a vote of an account that has none yet on
\* an active proposal
ledgerAccepts(p) == ledgerState[p] = ACTIVE /\ p \notin DOMAIN ledgerVotes

\* await tx.wait(): the transaction is mined, or it reverts
StepWait(k) ==
  /\ k.pc = "wait"
  /\ \/ /\ ledgerAccepts(k.proposalId)
        /\ ledgerVotes' = Put(ledgerVotes, k.proposalId, Number(k.voteType))
        /\ Goto(k, [k EXCEPT !.pc = "verify"])
     \/ /\ Throw(k, RevertError)
        /\ UNCHANGED ledgerVotes
  /\ UNCHANGED <<ledgerState, power, web3Vars, proposals, votingPowers,
                 tallyVars, dao>>

\* the delay and the VoteCast query after the receipt (their failure is
\* caught), setVoting of the success, and the return to submitVote
StepVerify(k) ==
  /\ k.pc = "verify"
  /\ voting' = votingSuccess(k.proposalId)
  /\ tasks' = Settle(k)
  /\ UNCHANGED <<ledgerVars, web3Vars, tabVars, tallyVars, dao>>

----------------------------------------------------------------------------
(* Effects and the environment *)

\* the effect on [account, isConnected, contractsReady, refreshCounter]
resetVoting == voting' = votingInitial

\* the ledger-refresh epoch advances
Refresh ==
  /\ refreshCounter < MaxRefresh
  /\ refreshCounter' = refreshCounter + 1
  /\ resetVoting
  /\ UNCHANGED <<ledgerVars, isConnected, contractsReady, tabVars, tasks,
                 tallyVars, dao>>

\* the wallet connects or disconnects; the contracts are ready only while
\* it is connected
ConnectionChange ==
  /\ \E c \in BOOLEAN, r \in BOOLEAN :
       /\ <<c, r>> # <<isConnected, contractsReady>>
       /\ r => c
       /\ isConnected' = c
       /\ contractsReady' = r
  /\ resetVoting
  /\ UNCHANGED <<ledgerVars, refreshCounter, tabVars, tasks, tallyVars, dao>>

\* getVotingPower(proposal.snapshotId): "0" without a session or on a failure
getVotingPower(connected, ready, snapshotId, current, result) ==
  IF ~connected \/ ~ready THEN BN(0)
  ELSE IF snapshotId = 0 /\ ~current.ok THEN BN(0)
  ELSE IF ~result.ok THEN BN(0)
  ELSE result.value

\* the proposals prop is replaced: both effects on [proposals] run
ReloadProposals ==
  /\ proposals' = loadProposals
  /\ votedProposals' = initVotedProposals(proposals')
  /\ \E failing \in SUBSET Proposals :
       votingPowers' =
         [p \in Proposals |->
            IF proposals'[p].state # ACTIVE THEN BN(0)
            ELSE getVotingPower(isConnected, contractsReady, 1, FailedInt,
                   IF p \in failing THEN FailedBN ELSE Ok(power[1]))]
  /\ UNCHANGED <<ledgerVars, web3Vars, voting, tasks, tallyVars, dao>>

\* the voting period of a proposal ends on the ledger
ProposalEnds(p) ==
  /\ ledgerState[p] = ACTIVE
  /\ ledgerState' = [ledgerState EXCEPT ![p] = 2]
  /\ UNCHANGED <<ledgerVotes, power, web3Vars, voting, tabVars, tasks,
                 tallyVars, dao>>

----------------------------------------------------------------------------
(* getProposalVoteTotals *)

\* String.prototype.toLowerCase on the addresses of the model
toLowerCase(a) ==
  IF a = "0xA" THEN "0xa" ELSE IF a = "0xB" THEN "0xb" ELSE a

\* a VoteCast log as parseLog returns it; votingPower is a BigNumber
VoteCast(voter, support, votingPower) ==
  [voter |-> voter, support |-> support, votingPower |-> votingPower]

\* a variant in which the running sums are kept outside the function, so
\* that a call starts from the sums the previous call left
NoVotesCarried ==
  [yesVotes |-> tallyOut.result.yesVotes, noVotes |-> tallyOut.result.noVotes,
   abstainVotes |-> tallyOut.result.abstainVotes, voters |-> {}]

\* the running sums and the voters set of the loop
NoVotes == [yesVotes |-> 0, noVotes |-> 0, abstainVotes |-> 0, voters |-> {}]

\* if (support === 0) noVotes += votingPower; else if ... (no other bucket)
addVotingPower(acc, support, votingPower) ==
  IF support = AGAINST THEN [acc EXCEPT !.noVotes = @ + votingPower]
  ELSE IF support = FOR THEN [acc EXCEPT !.yesVotes = @ + votingPower]
  ELSE IF support = ABSTAIN THEN [acc EXCEPT !.abstainVotes = @ + votingPower]
  ELSE acc

\* voters.add(voter)
addVoter(acc, voter) == [acc EXCEPT !.voters = @ \cup {voter}]

\* the body of the loop over the logs: votingPower.toNumber() throws above
\* the safe-integer limit, before voters.add, and the catch skips the log
processLog(acc, log) ==
  LET voter == toLowerCase(log.voter)
      support == log.support
  IN IF ~log.votingPower.safe THEN acc
     ELSE addVotingPower(addVoter(acc, voter), support, log.votingPower.n)

RECURSIVE processLogs(_, _)
processLogs(acc, logs) ==
  IF logs = <<>> THEN acc
  ELSE processLogs(processLog(acc, Head(logs)), Tail(logs))

\* a variant in which the direct query overrides what the logs counted:
\* the weight of proposalVoterInfo is added without the voters.has test
includeAccountDirectWins(acc, account, voterInfo, userEvents) ==
  IF account = "" THEN acc
  ELSE IF ~voterInfo.ok THEN acc
  ELSE IF isZero(voterInfo.value) THEN acc
  ELSE IF ~userEvents.ok THEN acc
  ELSE IF Len(userEvents.value) = 0 THEN acc
  ELSE LET support == userEvents.value[Len(userEvents.value)].support
           counted == addVoter(acc, toLowerCase(account))
       IN IF ~voterInfo.value.safe THEN counted
          ELSE addVotingPower(counted, support, voterInfo.value.n)

\* the vote of the connected account, from proposalVoterInfo and the
\* account's own VoteCast events; every failure inside is caught
includeAccount(acc, account, voterInfo, userEvents) ==
  IF account = "" THEN acc
  ELSE IF ~voterInfo.ok THEN acc
  ELSE IF isZero(voterInfo.value) THEN acc
  ELSE IF ~userEvents.ok THEN acc
  ELSE IF Len(userEvents.value) = 0 THEN acc
  ELSE IF toLowerCase(account) \in acc.voters THEN acc
  ELSE LET support == userEvents.value[Len(userEvents.value)].support
           counted == addVoter(acc, toLowerCase(account))
       IN IF ~voterInfo.value.safe THEN counted
          ELSE addVotingPower(counted, support, voterInfo.value.n)

\* a percentage (x / totalVotes) * 100, kept exact as a fraction
Percentage(x, totalVotes) == [times100 |-> 100 * x, over |-> totalVotes]
ZeroPercentage == [times100 |-> 0, over |-> 1]

\* the object returned after the tally
tallyResult(acc) ==
  LET totalVotes == acc.yesVotes + acc.noVotes + acc.abstainVotes
  IN [yesVotes |-> acc.yesVotes,
      noVotes |-> acc.noVotes,
      abstainVotes |-> acc.abstainVotes,
      totalVotes |-> totalVotes,
      totalVoters |-> Cardinality(acc.voters),
      yesPercentage |->
        IF totalVotes > 0 THEN Percentage(acc.yesVotes, totalVotes)
        ELSE ZeroPercentage,
      noPercentage |->
        IF totalVotes > 0 THEN Percentage(acc.noVotes, totalVotes)
        ELSE ZeroPercentage,
      abstainPercentage |->
        IF totalVotes > 0 THEN Percentage(acc.abstainVotes, totalVotes)
        ELSE ZeroPercentage]

\* the object of the two early returns
earlyZeroTally ==
  [yesVotes |-> 0, noVotes |-> 0, abstainVotes |-> 0, totalVotes |-> 0,
   totalVoters |-> 0]

\* the object of the outer catch
caughtZeroTally ==
  [yesVotes |-> 0, noVotes |-> 0, abstainVotes |-> 0, totalVotes |-> 0,
   totalVoters |-> 0, yesPercentage |-> ZeroPercentage,
   noPercentage |-> ZeroPercentage, abstainPercentage |-> ZeroPercentage]

\* a variant without the check that the proposal exists
getProposalVoteTotalsUnchecked(q) ==
  IF ~q.hasProvider THEN earlyZeroTally
  ELSE IF ~q.logs.ok THEN caughtZeroTally
  ELSE tallyResult(
         includeAccount(processLogs(NoVotes, q.logs.value),
                        q.account, q.voterInfo, q.userEvents))

\* getProposalVoteTotals over the answers q of the ledger
getProposalVoteTotals(q) ==
  IF ~q.hasProvider THEN earlyZeroTally
  ELSE IF ~q.state.ok THEN earlyZeroTally
  ELSE IF ~q.logs.ok THEN caughtZeroTally
  ELSE tallyResult(
         includeAccount(processLogs(NoVotes, q.logs.value),
                        q.account, q.voterInfo, q.userEvents))

\* provider.getLogs is reached only past the two early returns
fetchesLogs(q) == q.hasProvider /\ q.state.ok

\* the calls: the answers are in tallyIn, the returned object goes to
\* tallyOut, with whether getLogs was called, the object of the first call
\* and whether a second call was made
NotCalled ==
  [done |-> FALSE, result |-> earlyZeroTally, logsFetched |-> FALSE,
   first |-> earlyZeroTally, repeated |-> FALSE]

GetProposalVoteTotals ==
  /\ ~tallyOut.done
  /\ tallyOut' = [done |-> TRUE, result |-> getProposalVoteTotals(tallyIn),
                  logsFetched |-> fetchesLogs(tallyIn),
                  first |-> getProposalVoteTotals(tallyIn),
                  repeated |-> FALSE]
  /\ UNCHANGED <<ledgerVars, web3Vars, voting, tabVars, tasks, tallyIn,
                 dao>>

\* a second call for the same proposal, the ledger unchanged
GetProposalVoteTotalsAgain ==
  /\ tallyOut.done
  /\ ~tallyOut.repeated
  /\ tallyOut' = [tallyOut EXCEPT !.result = getProposalVoteTotals(tallyIn),
                                  !.logsFetched = fetchesLogs(tallyIn),
                                  !.repeated = TRUE]
  /\ UNCHANGED <<ledgerVars, web3Vars, voting, tabVars, tasks, tallyIn,
                 dao>>

\* the answers a ledger can give
MaxLogs == 3
MaxAccountLogs == 2
MaxUserEvents == 2

SeqsUpTo(S, n) == UNION {[1..m -> S] : m \in 0..n}

VoteCastLogs ==
  {VoteCast(v, s, w) : v \in {"0xA", "0xB"}, s \in 0..3,
                       w \in {BN(50), BN(100), HugeBN}}

Answers(hasProvider, state, logs, account, voterInfo, userEvents) ==
  [hasProvider |-> hasProvider, state |-> state, logs |-> logs,
   account |-> account, voterInfo |-> voterInfo, userEvents |-> userEvents]

\* no account is connected: the tally is the one of the logs
LogAnswers ==
  {Answers(TRUE, Ok(ACTIVE), Ok(logs), "", FailedBN, FailedSeq) :
     logs \in SeqsUpTo(VoteCastLogs, MaxLogs)}
  \cup {Answers(FALSE, FailedInt, FailedSeq, "", FailedBN, FailedSeq),
        Answers(TRUE, FailedInt, FailedSeq, "", FailedBN, FailedSeq),
        Answers(TRUE, Ok(ACTIVE), FailedSeq, "", FailedBN, FailedSeq)}
  \cup {Answers(h, FailedInt, Ok(logs), "", FailedBN, FailedSeq) :
          h \in BOOLEAN, logs \in SeqsUpTo(VoteCastLogs, 1)}

\* an account is connected: the general logs next to which the account's own
\* data is looked at, the account as the wallet gives it, and the answers of
\* proposalVoterInfo and of the query of the account's own events
AccountVoteCastLogs ==
  {VoteCast(v, s, w) : v \in {"0xA", "0xB"}, s \in {AGAINST, FOR, 3},
                       w \in {BN(100), HugeBN}}

Accounts == {"0xA", "0xa"}

VoterInfoAnswers == {FailedBN, Ok(BN(0)), Ok(BN(70)), Ok(HugeBN)}

UserEventAnswers ==
  {FailedSeq} \cup
  {Ok(e) : e \in SeqsUpTo({[support |-> s] : s \in 0..3}, MaxUserEvents)}

----------------------------------------------------------------------------
(* The session: VoteTab over useVoting *)

\* the buttons the model clicks
VoteChoices == {AGAINST, FOR}

InitSessionWith(votes) ==
  /\ ledgerState = [p \in Proposals |-> ACTIVE]
  /\ ledgerVotes = votes
  /\ power = [id \in Snapshots |-> IF id = 0 THEN BN(0) ELSE BN(100)]
  /\ isConnected = TRUE
  /\ contractsReady = TRUE
  /\ refreshCounter = 0
  /\ voting = votingInitial
  /\ proposals = loadProposals
  /\ votedProposals = initVotedProposals(proposals)
  /\ votingPowers = [p \in Proposals |-> power[1]]
  /\ tasks = EmptyBag

InitSession == InitSessionWith(EmptyMap)

Init ==
  /\ InitSession
  /\ tallyIn = Answers(FALSE, FailedInt, FailedSeq, "", FailedBN, FailedSeq)
  /\ tallyOut = NotCalled
  /\ dao = NoFetch

Next ==
  \/ \E p \in Proposals, s \in VoteChoices : SubmitVote(p, s)
  \/ \E k \in InFlight : StepGetProposalState(k)
  \/ \E k \in InFlight : StepHasVoted(k)
  \/ \E k \in InFlight : StepGetProposalSnapshotId(k)
  \/ \E k \in InFlight : StepGetEffectiveVotingPower(k)
  \/ \E k \in InFlight : StepCastVote(k)
  \/ \E k \in InFlight : StepWait(k)
  \/ \E k \in InFlight : StepVerify(k)
  \/ Refresh
  \/ ReloadProposals

Spec == Init /\ [][Next]_vars

\* a continuation runs once its promise settles, and every query of the
\* provider settles; nothing makes the ledger deliver a receipt
Fairness ==
  /\ WF_vars(\E k \in InFlight : StepGetProposalState(k))
  /\ WF_vars(\E k \in InFlight : StepHasVoted(k))
  /\ WF_vars(\E k \in InFlight : StepGetProposalSnapshotId(k))
  /\ WF_vars(\E k \in InFlight : StepGetEffectiveVotingPower(k))
  /\ WF_vars(\E k \in InFlight : StepCastVote(k))
  /\ WF_vars(\E k \in InFlight : StepVerify(k))

FairSpec == Init /\ [][Next]_vars /\ Fairness

----------------------------------------------------------------------------
(* The hook alone: castVote called by any consumer with any argument *)

VoteTypeArguments == {Num(AGAINST), Num(FOR), Num(3), JsNull}

NextCast ==
  \/ \E p \in Proposals, v \in VoteTypeArguments : CastVoteDirect(p, v)
  \/ \E k \in InFlight : StepGetProposalState(k)
  \/ \E k \in InFlight : StepHasVoted(k)
  \/ \E k \in InFlight : StepGetProposalSnapshotId(k)
  \/ \E k \in InFlight : StepGetEffectiveVotingPower(k)
  \/ \E k \in InFlight : StepCastVote(k)
  \/ \E k \in InFlight : StepWait(k)
  \/ \E k \in InFlight : StepVerify(k)
  \/ ConnectionChange
  \/ \E p \in Proposals : ProposalEnds(p)

\* the account may have voted on proposal 0 in an earlier session
InitCast ==
  /\ \E votes \in {EmptyMap, [p \in {0} |-> FOR]} : InitSessionWith(votes)
  /\ tallyIn = Answers(FALSE, FailedInt, FailedSeq, "", FailedBN, FailedSeq)
  /\ tallyOut = NotCalled
  /\ dao = NoFetch

SpecCast == InitCast /\ [][NextCast]_vars

----------------------------------------------------------------------------
(* getProposalVoteTotals called once on any answers of the ledger *)

InitTally ==
  /\ InitSession
  /\ tallyIn \in LogAnswers
  /\ tallyOut = NotCalled
  /\ dao = NoFetch

InitAccountTally ==
  /\ InitSession
  /\ \E logs \in SeqsUpTo(AccountVoteCastLogs, MaxAccountLogs),
        account \in Accounts, voterInfo \in VoterInfoAnswers,
        userEvents \in UserEventAnswers :
       tallyIn =
         Answers(TRUE, Ok(ACTIVE), Ok(logs), account, voterInfo, userEvents)
  /\ tallyOut = NotCalled
  /\ dao = NoFetch

NextTally == GetProposalVoteTotals \/ GetProposalVoteTotalsAgain

SpecTally == InitTally /\ [][NextTally]_vars
SpecAccountTally == InitAccountTally /\ [][NextTally]_vars

----------------------------------------------------------------------------
(* useDAOStats: fetchProposalStats *)

\* let high = 1000
UPPER_BOUND == 1000

\* count.toNumber(): it throws above the safe-integer range, the catch
\* leaves totalProposals at 0
countToNumber(count) ==
  IF ~count.ok THEN 0
  ELSE IF ~count.value.safe THEN 0
  ELSE count.value.n

\* a variant that searches whatever the direct count was
needsSearchAlways(totalProposals) == TRUE

\* if (totalProposals === 0): the binary search is needed
needsSearch(totalProposals) == totalProposals = 0

\* Math.floor((low + high) / 2)
midpoint(low, high) == (low + high) \div 2

\* a variant that keeps mid in the interval when the id exists
nextIntervalKeepsMid(low, high, exists) ==
  LET mid == midpoint(low, high)
  IN IF exists THEN [low |-> mid, high |-> high]
     ELSE [low |-> low, high |-> mid - 1]

\* one probe: low = mid + 1 when getProposalState(mid) answers, high = mid - 1
\* when it throws
nextInterval(low, high, exists) ==
  LET mid == midpoint(low, high)
  IN IF exists THEN [low |-> mid + 1, high |-> high]
     ELSE [low |-> low, high |-> mid - 1]

\* a variant that forgets that the ids are 0-indexed
searchResultOffByOne(high) == high

\* totalProposals = high + 1
searchResult(high) == high + 1

\* the call of fetchProposalStats: the ledger it runs against (whether the
\* governance contract is there, whether it has getProposalCount and what
\* that answers, the ids that exist and those that are active, whether
\* getProposalState answers each probe arbitrarily) and its locals
ProposalStatsCall(hasGovernance, hasCount, count, existing, active, anyAnswer) ==
  [pc |-> "start", hasGovernance |-> hasGovernance, hasCount |-> hasCount,
   count |-> count, existing |-> existing, active |-> active,
   anyAnswer |-> anyAnswer, low |-> 0, high |-> 0, probes |-> 0,
   searched |-> FALSE, totalProposals |-> 0, activeProposals |-> 0]

\* fetchProposalStats up to the first probe: the direct count, if any
FetchProposalStats ==
  /\ dao.pc = "start"
  /\ IF ~dao.hasGovernance
     THEN dao' = [dao EXCEPT !.pc = "done"]
     ELSE LET total == IF dao.hasCount THEN countToNumber(dao.count) ELSE 0
          IN IF needsSearch(total)
             THEN dao' = [dao EXCEPT !.pc = "search", !.low = 0,
                                     !.high = UPPER_BOUND, !.searched = TRUE]
             ELSE dao' = [dao EXCEPT !.pc = "countActive",
                                     !.totalProposals = total]
  /\ UNCHANGED <<ledgerVars, web3Vars, voting, tabVars, tasks, tallyVars>>

\* await contracts.governance.getProposalState(mid) in the while loop, and
\* the code up to the next probe or past the loop
StepProbe ==
  /\ dao.pc = "search"
  /\ dao.low <= dao.high
  /\ \E exists \in IF dao.anyAnswer THEN BOOLEAN
                  ELSE {midpoint(dao.low, dao.high) \in dao.existing} :
       LET next == nextInterval(dao.low, dao.high, exists)
       IN dao' = IF next.low <= next.high
                 THEN [dao EXCEPT !.low = next.low, !.high = next.high,
                                  !.probes = @ + 1]
                 ELSE [dao EXCEPT !.low = next.low, !.high = next.high,
                                  !.probes = @ + 1, !.pc = "countActive",
                                  !.totalProposals = searchResult(next.high)]
  /\ UNCHANGED <<ledgerVars, web3Vars, voting, tabVars, tasks, tallyVars>>

\* the loop that counts the active proposals below totalProposals (an id
\* whose state query throws is skipped), and the return
StepCountActive ==
  /\ dao.pc = "countActive"
  /\ dao' = [dao EXCEPT
       !.pc = "done",
       !.activeProposals =
         Cardinality({i \in dao.active \cap dao.existing :
                        i < dao.totalProposals})]
  /\ UNCHANGED <<ledgerVars, web3Vars, voting, tabVars, tasks, tallyVars>>

NextProposalStats == FetchProposalStats \/ StepProbe \/ StepCountActive

\* no usable direct count: the ids 0..n-1 exist, for every n up to
\* UPPER_BOUND + 1
InitProposalCount ==
  /\ InitSession
  /\ tallyIn = Answers(FALSE, FailedInt, FailedSeq, "", FailedBN, FailedSeq)
  /\ tallyOut = NotCalled
  /\ \E n \in 0..(UPPER_BOUND + 1), hasCount \in BOOLEAN :
       dao = ProposalStatsCall(TRUE, hasCount, FailedBN, 0..(n - 1),
                               {0}, FALSE)

SpecProposalCount == InitProposalCount /\ [][NextProposalStats]_vars

\* the sizes of the small ledgers on which the direct count is tried
MaxExisting == 3

\* governance.getProposalCount exists, and answers
InitDirectCount ==
  /\ InitSession
  /\ tallyIn = Answers(FALSE, FailedInt, FailedSeq, "", FailedBN, FailedSeq)
  /\ tallyOut = NotCalled
  /\ \E n \in 0..MaxExisting, hasGovernance \in BOOLEAN,
        count \in {FailedBN, Ok(HugeBN)} \cup
                  {Ok(BN(c)) : c \in 0..(MaxExisting + 1)} :
       dao = ProposalStatsCall(hasGovernance, TRUE, count, 0..(n - 1),
                               {0}, FALSE)

SpecDirectCount == InitDirectCount /\ [][NextProposalStats]_vars

\* getProposalState answers every probe arbitrarily
InitAnyOracle ==
  /\ InitSession
  /\ tallyIn = Answers(FALSE, FailedInt, FailedSeq, "", FailedBN, FailedSeq)
  /\ tallyOut = NotCalled
  /\ dao = ProposalStatsCall(TRUE, FALSE, FailedBN, {}, {}, TRUE)

\* every awaited getProposalState resolves or rejects
SpecAnyOracle ==
  /\ InitAnyOracle
  /\ [][NextProposalStats]_vars
  /\ WF_vars(FetchProposalStats)
  /\ WF_vars(StepProbe)
  /\ WF_vars(StepCountActive)

\* ledgers whose proposal ids are any of a few ids up to UPPER_BOUND: ids
\* were deleted or skipped
SparseIds == {0, 1, 2, 499, 500, 750, UPPER_BOUND}

InitSparse ==
  /\ InitSession
  /\ tallyIn = Answers(FALSE, FailedInt, FailedSeq, "", FailedBN, FailedSeq)
  /\ tallyOut = NotCalled
  /\ \E existing \in SUBSET SparseIds, hasCount \in BOOLEAN :
       dao = ProposalStatsCall(TRUE, hasCount, FailedBN, existing,
                               existing \cap {0, 500}, FALSE)

SpecSparse == InitSparse /\ [][NextProposalStats]_vars

----------------------------------------------------------------------------
(* useDAOStats: the holder count *)

\* a holder count with the strategy it came from ("default" for the
\* constant 4) and the strategies that were tried to get it
Holders(value, source, tried) ==
  [value |-> value, source |-> source, tried |-> tried]

\* fetchTokenHoldersDirect over the answers of the ledger: whether the
\* Transfer events could be read, the number of candidates with a balance
\* and the number of the probed common addresses with a balance
fetchTokenHoldersDirect(q, tried) ==
  LET now == tried \cup {"direct"}
  IN IF ~q.eventsOk THEN Holders(4, "default", now)
     ELSE IF q.holdersCount > 0 THEN Holders(q.holdersCount, "direct", now)
     ELSE IF q.directHolders > 0 THEN Holders(q.directHolders, "direct", now)
     ELSE Holders(4, "default", now)

\* data.status === "1" && data.result
holderListUsable(data) == data.ok /\ data.status1 /\ data.truthy

\* Array.isArray(data.result) ? data.result.length : 0
holderListLength(data) == IF data.isArray THEN data.length ELSE 0

\* count > 0 for count = parseInt(tokenInfo.holderCount || tokenInfo.holders):
\* NaN is not
countPlausible(count) == count.type = "number" /\ count.n > 0

\* fetchTokenHoldersFromEtherscan over the answers q of Etherscan and of the
\* ledger
fetchTokenHoldersFromEtherscan(q) ==
  IF ~q.hasTokenAddress THEN Holders(4, "default", {})
  ELSE IF ~q.holderList.ok THEN fetchTokenHoldersDirect(q, {"holderList"})
  ELSE IF holderListUsable(q.holderList)
  THEN IF holderListLength(q.holderList) > 0
       THEN Holders(holderListLength(q.holderList), "holderList",
                    {"holderList"})
       ELSE Holders(4, "default", {"holderList"})
  ELSE IF ~q.tokenInfo.ok
  THEN fetchTokenHoldersDirect(q, {"holderList", "tokenInfo"})
  ELSE IF q.tokenInfo.status1 /\ q.tokenInfo.hasItem
  THEN IF countPlausible(q.tokenInfo.count)
       THEN Holders(q.tokenInfo.count.n, "tokenInfo",
                    {"holderList", "tokenInfo"})
       ELSE Holders(4, "default", {"holderList", "tokenInfo"})
  ELSE fetchTokenHoldersDirect(q, {"holderList", "tokenInfo"})

\* the answers to the tokenholderlist request: the request or its JSON
\* fails, or data with its status and result
HolderList(ok, status1, truthy, isArray, length) ==
  [ok |-> ok, status1 |-> status1, truthy |-> truthy, isArray |-> isArray,
   length |-> length]

\* the longest holder list Etherscan answers with
MaxHolders == 2

HolderListAnswers ==
  {HolderList(FALSE, FALSE, FALSE, FALSE, 0),
   HolderList(TRUE, FALSE, TRUE, FALSE, 0),
   HolderList(TRUE, TRUE, FALSE, FALSE, 0),
   HolderList(TRUE, TRUE, TRUE, FALSE, 0)}
  \cup {HolderList(TRUE, TRUE, TRUE, TRUE, n) : n \in 0..MaxHolders}

\* the answers to the tokeninfo request: it fails, or statsData with its
\* status, whether an item carries a holder count, and that count as
\* parseInt reads it (null stands for NaN)
TokenInfo(ok, status1, hasItem, count) ==
  [ok |-> ok, status1 |-> status1, hasItem |-> hasItem, count |-> count]

TokenInfoAnswers ==
  {TokenInfo(FALSE, FALSE, FALSE, JsNull),
   TokenInfo(TRUE, FALSE, FALSE, JsNull),
   TokenInfo(TRUE, TRUE, FALSE, JsNull)}
  \cup {TokenInfo(TRUE, TRUE, TRUE, c) : c \in {JsNull, Num(0), Num(3)}}

\* the call of fetchTokenHoldersFromEtherscan on given answers
HolderCountCall(hasTokenAddress, holderList, tokenInfo, eventsOk, holdersCount, directHolders) ==
  [pc |-> "start", hasTokenAddress |-> hasTokenAddress,
   holderList |-> holderList, tokenInfo |-> tokenInfo,
   eventsOk |-> eventsOk, holdersCount |-> holdersCount,
   directHolders |-> directHolders, result |-> Holders(0, "none", {})]

FetchTokenHoldersFromEtherscan ==
  /\ dao.pc = "start"
  /\ dao' = [dao EXCEPT !.pc = "done",
                        !.result = fetchTokenHoldersFromEtherscan(dao)]
  /\ UNCHANGED <<ledgerVars, web3Vars, voting, tabVars, tasks, tallyVars>>

InitHolderCount ==
  /\ InitSession
  /\ tallyIn = Answers(FALSE, FailedInt, FailedSeq, "", FailedBN, FailedSeq)
  /\ tallyOut = NotCalled
  /\ \E hasTokenAddress \in BOOLEAN, holderList \in HolderListAnswers,
        tokenInfo \in TokenInfoAnswers, eventsOk \in BOOLEAN,
        holdersCount \in {0, 7}, directHolders \in {0, 1} :
       dao = HolderCountCall(hasTokenAddress, holderList, tokenInfo,
                             eventsOk, holdersCount, directHolders)

SpecHolderCount == InitHolderCount /\ [][FetchTokenHoldersFromEtherscan]_vars

----------------------------------------------------------------------------
(* useDAOStats: fetchGovernanceMetrics *)

\* A field of an upstream answer: absent, a BigNumber (one above the
\* safe-integer range has n above every plausible value and a toNumber that
\* throws), a JavaScript number, or a string that is no numeral
Missing == [kind |-> "missing", n |-> 0]
BigNum(n) == [kind |-> "bn", n |-> n]
HugeNum == [kind |-> "hugebn", n |-> 1000000]
Plain(n) == [kind |-> "number", n |-> n]
Text == [kind |-> "text", n |-> 0]

\* the truth value JavaScript gives the field
truthy(f) == f.kind \in {"bn", "hugebn", "text"} \/ (f.kind = "number" /\ f.n # 0)

\* whether f.toNumber() throws
toNumberThrows(f) == f.kind = "hugebn"

\* A rate is kept in basis points (the rate times 10000), or is NaN
Rate(bps) == [nan |-> FALSE, bps |-> bps]
NaNRate == [nan |-> TRUE, bps |-> 0]

\* f.toNumber() / 10000 or parseInt(f?.toString() || '0') / 10000 for
\* scale = 1, and the same over 100 for scale = 100; toNumber does not throw
toRate(f, scale) ==
  IF f.kind = "text" THEN NaNRate ELSE Rate(f.n * scale)

\* the three rates of the hook
Rates(p, d, s) ==
  [participationRate |-> p, delegationRate |-> d, proposalSuccessRate |-> s]

\* the realistic default values
defaultRates == Rates(Rate(2700), Rate(3800), Rate(7300))

\* the part of the analytics strategy that reads proposalAnalytics: the
\* rates after it and whether it threw
readProposalAnalytics(q, r) ==
  IF ~q.proposalAnalytics.ok THEN [rates |-> r, threw |-> TRUE]
  ELSE IF q.proposalAnalytics.isNull THEN [rates |-> r, threw |-> FALSE]
  ELSE LET pa == q.proposalAnalytics
       IN IF toNumberThrows(pa.avgVotingTurnout)
          THEN [rates |-> r, threw |-> TRUE]
          ELSE LET r1 == [r EXCEPT !.participationRate =
                                     toRate(pa.avgVotingTurnout, 1)]
               IN IF ~truthy(pa.generalSuccessRate)
                  THEN [rates |-> r1, threw |-> FALSE]
                  ELSE IF toNumberThrows(pa.generalSuccessRate)
                  THEN [rates |-> r1, threw |-> TRUE]
                  ELSE [rates |-> [r1 EXCEPT !.proposalSuccessRate =
                                      toRate(pa.generalSuccessRate, 100)],
                        threw |-> FALSE]

\* the part of the analytics strategy that reads tokenAnalytics
readTokenAnalytics(q, r) ==
  IF ~q.tokenAnalytics.ok \/ q.tokenAnalytics.isNull THEN r
  ELSE LET pd == q.tokenAnalytics.percentageDelegated
       IN IF ~truthy(pd) \/ toNumberThrows(pd) THEN r
          ELSE [r EXCEPT !.delegationRate = toRate(pd, 1)]

\* the analytics helper strategy, its exceptions caught
analyticsStrategy(q, r) ==
  IF ~q.hasAnalyticsHelper THEN r
  ELSE LET a == readProposalAnalytics(q, r)
       IN IF a.threw THEN a.rates ELSE readTokenAnalytics(q, a.rates)

\* the condition under which the snapshot strategy is entered
triesSnapshot(r) == r.delegationRate = Rate(0)

\* the delegation rate the snapshot strategy reads, its exceptions caught:
\* found is FALSE when it assigns nothing
snapshotDelegation(q) ==
  LET none == [found |-> FALSE, rate |-> NaNRate]
      m == q.metrics
  IN IF ~q.snapshotId.ok \/ isZero(q.snapshotId.value) THEN none
     ELSE IF ~m.ok \/ m.isNull THEN none
     ELSE IF truthy(m.percentageDelegated)
     THEN [found |-> TRUE, rate |-> toRate(m.percentageDelegated, 1)]
     ELSE IF m.length >= 5 /\ m.fifth.kind # "missing"
     THEN [found |-> TRUE, rate |-> toRate(m.fifth, 1)]
     ELSE none

snapshotStrategy(q, r) ==
  IF triesSnapshot(r) /\ snapshotDelegation(q).found
  THEN [r EXCEPT !.delegationRate = snapshotDelegation(q).rate]
  ELSE r

\* r <= 0.01 || r > 1: false of NaN
implausibleAtOrBelowZero(r) == ~r.nan /\ (r.bps <= 0 \/ r.bps > 10000)
implausible(r) == ~r.nan /\ (r.bps <= 100 \/ r.bps > 10000)

\* the clamp and the isNaN guard of the return statement
clampRate(r, default) ==
  IF implausible(r) \/ r.nan THEN default ELSE r

clampRates(r) ==
  Rates(clampRate(r.participationRate, defaultRates.participationRate),
        clampRate(r.delegationRate, defaultRates.delegationRate),
        clampRate(r.proposalSuccessRate, defaultRates.proposalSuccessRate))

\* the rates before the clamp
rawRates(q) == snapshotStrategy(q, analyticsStrategy(q, defaultRates))

\* fetchGovernanceMetrics over the answers q of the analytics helper and of
\* the token
fetchGovernanceMetrics(q) == clampRates(rawRates(q))

\* the answers of upstream
ProposalAnalytics(ok, isNull, avgVotingTurnout, generalSuccessRate) ==
  [ok |-> ok, isNull |-> isNull, avgVotingTurnout |-> avgVotingTurnout,
   generalSuccessRate |-> generalSuccessRate]

TokenAnalytics(ok, isNull, percentageDelegated) ==
  [ok |-> ok, isNull |-> isNull, percentageDelegated |-> percentageDelegated]

Metrics(ok, isNull, percentageDelegated, length, fifth) ==
  [ok |-> ok, isNull |-> isNull, percentageDelegated |-> percentageDelegated,
   length |-> length, fifth |-> fifth]

BasisPointFields ==
  {Missing, BigNum(0), BigNum(100), BigNum(101), BigNum(4500), BigNum(10000),
   BigNum(10001), HugeNum, Plain(0), Plain(0 - 5), Text}

PercentFields ==
  {Missing, BigNum(0), BigNum(1), BigNum(2), BigNum(100), BigNum(101),
   HugeNum, Text}

SnapshotFields == {Missing, BigNum(0), BigNum(4500), HugeNum, Text}

ProposalAnalyticsAnswers ==
  {ProposalAnalytics(FALSE, FALSE, Missing, Missing),
   ProposalAnalytics(TRUE, TRUE, Missing, Missing)}
  \cup {ProposalAnalytics(TRUE, FALSE, t, g) :
          t \in BasisPointFields, g \in PercentFields}

TokenAnalyticsAnswers ==
  {TokenAnalytics(FALSE, FALSE, Missing), TokenAnalytics(TRUE, TRUE, Missing)}
  \cup {TokenAnalytics(TRUE, FALSE, d) : d \in BasisPointFields}

MetricsAnswers ==
  {Metrics(FALSE, FALSE, Missing, 0, Missing),
   Metrics(TRUE, TRUE, Missing, 0, Missing)}
  \cup {Metrics(TRUE, FALSE, d, 0, Missing) : d \in SnapshotFields}
  \cup {Metrics(TRUE, FALSE, Missing, n, f) :
          n \in {4, 5}, f \in SnapshotFields}

\* the call of fetchGovernanceMetrics on given answers
GovernanceMetricsCall(hasAnalyticsHelper, proposalAnalytics, tokenAnalytics, snapshotId, metrics) ==
  [pc |-> "start", hasAnalyticsHelper |-> hasAnalyticsHelper,
   proposalAnalytics |-> proposalAnalytics,
   tokenAnalytics |-> tokenAnalytics, snapshotId |-> snapshotId,
   metrics |-> metrics, raw |-> defaultRates, result |-> defaultRates]

FetchGovernanceMetrics ==
  /\ dao.pc = "start"
  /\ dao' = [dao EXCEPT !.pc = "done",
                        !.raw = rawRates(dao),
                        !.result = fetchGovernanceMetrics(dao)]
  /\ UNCHANGED <<ledgerVars, web3Vars, voting, tabVars, tasks, tallyVars>>

InitGovernanceMetrics ==
  /\ InitSession
  /\ tallyIn = Answers(FALSE, FailedInt, FailedSeq, "", FailedBN, FailedSeq)
  /\ tallyOut = NotCalled
  /\ \E hasAnalyticsHelper \in BOOLEAN,
        proposalAnalytics \in ProposalAnalyticsAnswers,
        tokenAnalytics \in TokenAnalyticsAnswers,
        snapshotId \in {FailedBN, Ok(BN(0)), Ok(BN(3))},
        metrics \in MetricsAnswers :
       dao = GovernanceMetricsCall(hasAnalyticsHelper, proposalAnalytics,
                                   tokenAnalytics, snapshotId, metrics)

SpecGovernanceMetrics == InitGovernanceMetrics /\ [][FetchGovernanceMetrics]_vars

----------------------------------------------------------------------------
(* useVoting: one call of getProposalSnapshotId *)

\* the snapshot ids in the creation events and the current snapshot ids of
\* the calls: none of them is 0
EventSnapshots == {1, 3}
CurrentSnapshots == {2, 4}

\* the longest answer of queryFilter
MaxCreationEvents == 2

CreationEventAnswers ==
  {FailedSeq} \cup
  {Ok(evs) : evs \in SeqsUpTo({CreationEvent(d, id) :
                                 d \in BOOLEAN, id \in EventSnapshots},
                              MaxCreationEvents)}

CurrentSnapshotAnswers == {FailedInt} \cup {Ok(id) : id \in CurrentSnapshots}

\* the call getProposalSnapshotId(P) and the answers it gets: current1 and
\* current2 answer the first and the second getCurrentSnapshotId
SnapshotIdCall(hasGovernance, events, current1, current2) ==
  [pc |-> "start", hasGovernance |-> hasGovernance, events |-> events,
   current1 |-> current1, current2 |-> current2, result |-> 0]

GetProposalSnapshotId ==
  /\ dao.pc = "start"
  /\ dao' = [dao EXCEPT !.pc = "done",
                        !.result = getProposalSnapshotId(dao.hasGovernance,
                                     dao.events, dao.current1, dao.current2)]
  /\ UNCHANGED <<ledgerVars, web3Vars, voting, tabVars, tasks, tallyVars>>

InitSnapshotId ==
  /\ InitSession
  /\ tallyIn = Answers(FALSE, FailedInt, FailedSeq, "", FailedBN, FailedSeq)
  /\ tallyOut = NotCalled
  /\ \E hasGovernance \in BOOLEAN, events \in CreationEventAnswers,
        current1 \in CurrentSnapshotAnswers,
        current2 \in CurrentSnapshotAnswers :
       dao = SnapshotIdCall(hasGovernance, events, current1, current2)

SpecSnapshotId == InitSnapshotId /\ [][GetProposalSnapshotId]_vars

----------------------------------------------------------------------------
(* The read path: what each read operation hands to its caller *)

\* the two ways an async function settles: it returns a value or it throws
Returned(v) == [threw |-> FALSE, value |-> v]
Thrown == [threw |-> TRUE]

\* a variant of try/catch that rethrows
caughtRethrows(outcome, default) == outcome

\* try { body } catch { return default }
caught(outcome, default) ==
  IF outcome.threw THEN Returned(default) ELSE outcome

\* hasVoted(proposalId)
hasVotedOutcome(q) ==
  IF ~q.connected \/ ~q.ready \/ ~q.hasAccount THEN Returned(FALSE)
  ELSE IF ~q.hasGovernance THEN Returned(FALSE)
  ELSE caught(IF ~q.voterInfo.ok THEN Thrown
              ELSE Returned(hasVoted(q.connected, q.ready, q.hasAccount,
                                     q.hasGovernance, q.voterInfo)),
              FALSE)

\* getVotingPower(snapshotId): the formatted power is kept as the BigNumber
\* it formats, "0" as BN(0)
getVotingPowerOutcome(q) ==
  IF ~q.connected \/ ~q.ready \/ ~q.hasAccount THEN Returned(BN(0))
  ELSE IF ~q.hasToken THEN Returned(BN(0))
  ELSE caught(IF (q.snapshotId = 0 /\ ~q.current.ok) \/ ~q.result.ok
              THEN Thrown
              ELSE Returned(getVotingPower(q.connected, q.ready, q.snapshotId,
                                           q.current, q.result)),
              BN(0))

\* { hasVoted: false, votingPower: "0", voteType: null }
noVoteDetails == [hasVoted |-> FALSE, votingPower |-> BN(0), voteType |-> JsNull]

\* the voteType getVoteDetails reads from the account's VoteCast events, the
\* failure of their query caught
latestVoteType(events) ==
  IF events.ok /\ Len(events.value) > 0
  THEN Num(events.value[Len(events.value)].support)
  ELSE JsNull

\* getVoteDetails(proposalId): without contracts.governance the first call
\* is a TypeError inside the try
getVoteDetailsOutcome(q) ==
  IF ~q.connected \/ ~q.ready \/ ~q.hasAccount THEN Returned(noVoteDetails)
  ELSE caught(IF ~q.hasGovernance \/ ~q.voterInfo.ok THEN Thrown
              ELSE IF isZero(q.voterInfo.value) THEN Returned(noVoteDetails)
              ELSE Returned([hasVoted |-> TRUE,
                             votingPower |-> q.voterInfo.value,
                             voteType |-> latestVoteType(q.userEvents)]),
              noVoteDetails)

\* getProposalVoteTotals(proposalId): provider.getLogs is the one call
\* outside an inner try
getProposalVoteTotalsOutcome(q) ==
  caught(IF fetchesLogs(q) /\ ~q.logs.ok THEN Thrown
         ELSE Returned(getProposalVoteTotals(q)),
         caughtZeroTally)

\* the supplies fetchSupplyData returns: formatted is FALSE for the "0" of
\* the catch, TRUE for a toFixed(2) string
Supplies(circulating, total, formatted) ==
  [circulatingSupply |-> circulating, totalTokenSupply |-> total,
   formatted |-> formatted]

\* the treasury balance: from the analytics helper, else (when that is zero)
\* the balance of the governance contract, every failure caught
treasuryBalance(q) ==
  LET fromAnalytics ==
        IF q.hasAnalyticsHelper /\ q.treasury.ok /\ q.treasury.value > 0
        THEN q.treasury.value ELSE 0
  IN IF fromAnalytics # 0 THEN fromAnalytics
     ELSE IF q.hasGovernance /\ q.governanceBalance.ok
     THEN q.governanceBalance.value
     ELSE 0

\* fetchSupplyData()
fetchSupplyDataOutcome(q) ==
  caught(IF ~q.hasToken \/ ~q.totalSupply.ok THEN Thrown
         ELSE Returned(Supplies(q.totalSupply.value - treasuryBalance(q),
                                q.totalSupply.value, TRUE)),
         Supplies(0, 0, FALSE))

\* fetchGovernanceMetrics(): every call sits in an inner try
fetchGovernanceMetricsOutcome(q) ==
  caught(Returned(fetchGovernanceMetrics(q)), defaultRates)

\* the holder-count chain: the catch of fetchTokenHoldersFromEtherscan
\* returns what fetchTokenHoldersDirect returns, which catches its own errors
holderCountOutcome(q) == Returned(fetchTokenHoldersFromEtherscan(q).value)

\* One read: the operation, the session and the answers of upstream
ReadOps ==
  {"hasVoted", "getVotingPower", "getVoteDetails", "getProposalVoteTotals",
   "fetchSupplyData", "fetchGovernanceMetrics", "holderCount"}

readOutcome(q) ==
  CASE q.op = "hasVoted" -> hasVotedOutcome(q)
    [] q.op = "getVotingPower" -> getVotingPowerOutcome(q)
    [] q.op = "getVoteDetails" -> getVoteDetailsOutcome(q)
    [] q.op = "getProposalVoteTotals" -> getProposalVoteTotalsOutcome(q)
    [] q.op = "fetchSupplyData" -> fetchSupplyDataOutcome(q)
    [] q.op = "fetchGovernanceMetrics" -> fetchGovernanceMetricsOutcome(q)
    [] q.op = "holderCount" -> holderCountOutcome(q)

\* the call of a read operation that is one function of the answers
Read ==
  /\ dao.op \in ReadOps
  /\ dao.pc = "start"
  /\ dao' = [dao EXCEPT !.pc = "done", !.outcome = readOutcome(dao)]
  /\ UNCHANGED <<ledgerVars, web3Vars, voting, tabVars, tasks, tallyVars>>

\* fetchProposalStats, which probes the ledger step by step
ReadProposalStats ==
  /\ dao.op = "fetchProposalStats"
  /\ NextProposalStats

ReadCall(op, q) == [op |-> op, outcome |-> Thrown] @@ q

SessionAnswers ==
  {[pc |-> "start", connected |-> c, ready |-> c, hasAccount |-> a,
    hasGovernance |-> g, hasToken |-> g, voterInfo |-> v, userEvents |-> e,
    snapshotId |-> id, current |-> cur, result |-> r] :
     c \in BOOLEAN, a \in BOOLEAN, g \in BOOLEAN,
     v \in {FailedBN, Ok(BN(0)), Ok(BN(70))},
     e \in {FailedSeq, Ok(<<>>), Ok(<<[support |-> FOR]>>)},
     id \in {0, 1}, cur \in CurrentSnapshotResponses,
     r \in {FailedBN, Ok(BN(100))}}

SupplyAnswers ==
  {[pc |-> "start", hasToken |-> t, hasAnalyticsHelper |-> h,
    hasGovernance |-> g, totalSupply |-> ts, treasury |-> tr,
    governanceBalance |-> gb] :
     t \in BOOLEAN, h \in BOOLEAN, g \in BOOLEAN,
     ts \in {FailedInt, Ok(0), Ok(1000)},
     tr \in {FailedInt, Ok(0), Ok(300)},
     gb \in {FailedInt, Ok(0), Ok(200)}}

TallyReadAnswers ==
  {[pc |-> "start"] @@ a : a \in
     {Answers(h, st, logs, "", FailedBN, FailedSeq) :
        h \in BOOLEAN, st \in {FailedInt, Ok(ACTIVE)},
        logs \in {FailedSeq} \cup {Ok(l) : l \in SeqsUpTo(VoteCastLogs, 1)}}}

GovernanceReadAnswers ==
  {GovernanceMetricsCall(h, pa, ta, id, m) :
     h \in BOOLEAN,
     pa \in {ProposalAnalytics(FALSE, FALSE, Missing, Missing),
             ProposalAnalytics(TRUE, FALSE, BigNum(4500), BigNum(2)),
             ProposalAnalytics(TRUE, FALSE, HugeNum, Text)},
     ta \in {TokenAnalytics(FALSE, FALSE, Missing),
             TokenAnalytics(TRUE, FALSE, BigNum(0)),
             TokenAnalytics(TRUE, FALSE, HugeNum)},
     id \in {FailedBN, Ok(BN(3))},
     m \in {Metrics(FALSE, FALSE, Missing, 0, Missing),
            Metrics(TRUE, FALSE, Text, 0, Missing),
            Metrics(TRUE, FALSE, Missing, 5, Missing)}}

HolderReadAnswers ==
  {HolderCountCall(a, hl, ti, ev, h, d) :
     a \in BOOLEAN, hl \in HolderListAnswers, ti \in TokenInfoAnswers,
     ev \in BOOLEAN, h \in {0, 7}, d \in {0, 1}}

ProposalStatsReadAnswers ==
  {ProposalStatsCall(g, hc, c, 0..(n - 1), {0}, FALSE) :
     g \in BOOLEAN, hc \in BOOLEAN, c \in {FailedBN, Ok(HugeBN), Ok(BN(2))},
     n \in {0, 2}}

InitReadPath ==
  /\ InitSession
  /\ tallyIn = Answers(FALSE, FailedInt, FailedSeq, "", FailedBN, FailedSeq)
  /\ tallyOut = NotCalled
  /\ \/ \E op \in {"hasVoted", "getVotingPower", "getVoteDetails"},
           q \in SessionAnswers : dao = ReadCall(op, q)
     \/ \E q \in SupplyAnswers : dao = ReadCall("fetchSupplyData", q)
     \/ \E q \in TallyReadAnswers : dao = ReadCall("getProposalVoteTotals", q)
     \/ \E q \in GovernanceReadAnswers :
          dao = ReadCall("fetchGovernanceMetrics", q)
     \/ \E q \in HolderReadAnswers : dao = ReadCall("holderCount", q)
     \/ \E q \in ProposalStatsReadAnswers :
          dao = ReadCall("fetchProposalStats", q)

NextReadPath == Read \/ ReadProposalStats

SpecReadPath == InitReadPath /\ [][NextReadPath]_vars

----------------------------------------------------------------------------
(* useDAOStats: the batched balance check of fetchTokenHoldersDirect *)

\* const batchSize = 10
batchSize == 10

\* the most candidate addresses the check is run on
MaxAddresses == 12

\* a variant that puts every remaining address into one batch
batchEndUnbounded(i, n) == n

\* addresses.slice(i, i + batchSize) ends before this index
batchEnd(i, n) == IF i + batchSize < n THEN i + batchSize ELSE n

\* the check over n candidate addresses, before its loop: i is the loop
\* variable, pending the balanceOf queries in flight, batchHolders the
\* promises of the batch that resolved to true; issued, nonZero and failures
\* count the queries sent, those answered with a non-zero balance and those
\* rejected
BalanceCheck(n) ==
  [pc |-> "start", n |-> n, i |-> 0, pending |-> {}, batchHolders |-> 0,
   holdersCount |-> 0, issued |-> 0, nonZero |-> 0, failures |-> 0]

\* batch.map(address => contracts.token.balanceOf(address)...) for the batch
\* that starts at i, or the end of the loop
issueBatch(c, i) ==
  IF i < c.n
  THEN [c EXCEPT !.pc = "batch", !.i = i,
                 !.pending = i..(batchEnd(i, c.n) - 1),
                 !.batchHolders = 0,
                 !.issued = @ + (batchEnd(i, c.n) - i)]
  ELSE [c EXCEPT !.pc = "done", !.i = i, !.pending = {}, !.batchHolders = 0]

\* the loop is entered
StartBalanceCheck ==
  /\ dao.pc = "start"
  /\ dao' = issueBatch(dao, 0)
  /\ UNCHANGED <<ledgerVars, web3Vars, voting, tabVars, tasks, tallyVars>>

\* one balanceOf settles: .then(balance => !balance.isZero()) or
\* .catch(() => false)
BalanceOfSettles ==
  /\ dao.pc = "batch"
  /\ \E a \in dao.pending, answer \in {"nonZero", "zero", "rejected"} :
       dao' = [dao EXCEPT
                 !.pending = @ \ {a},
                 !.batchHolders = IF answer = "nonZero" THEN @ + 1 ELSE @,
                 !.nonZero = IF answer = "nonZero" THEN @ + 1 ELSE @,
                 !.failures = IF answer = "rejected" THEN @ + 1 ELSE @]
  /\ UNCHANGED <<ledgerVars, web3Vars, voting, tabVars, tasks, tallyVars>>

\* await Promise.all(balancePromises) resumes: the batch is counted and the
\* next one is sent
BatchSettles ==
  /\ dao.pc = "batch"
  /\ dao.pending = {}
  /\ dao' = issueBatch([dao EXCEPT !.holdersCount = @ + dao.batchHolders],
                       dao.i + batchSize)
  /\ UNCHANGED <<ledgerVars, web3Vars, voting, tabVars, tasks, tallyVars>>

NextBalanceCheck == StartBalanceCheck \/ BalanceOfSettles \/ BatchSettles

InitBalanceCheck ==
  /\ InitSession
  /\ tallyIn = Answers(FALSE, FailedInt, FailedSeq, "", FailedBN, FailedSeq)
  /\ tallyOut = NotCalled
  /\ \E n \in 0..MaxAddresses : dao = BalanceCheck(n)

SpecBalanceCheck == InitBalanceCheck /\ [][NextBalanceCheck]_vars

----------------------------------------------------------------------------
(* useDAOStats: the candidate holders of fetchTokenHoldersDirect *)

\* ethers.constants.AddressZero
AddressZero == "0x0"

\* a Transfer event as queryFilter returns it; args may be missing
Transfer(from, to, hasArgs) == [from |-> from, to |-> to, hasArgs |-> hasArgs]

\* the senders and receivers of the events, the zero address skipped
eventAddresses(events) ==
  UNION {({events[j].from} \cup {events[j].to}) \ {AddressZero} :
           j \in {j \in 1..Len(events) : events[j].hasArgs}}

\* the known addresses that are there ("" stands for a missing one)
knownAddresses(q) == {q.governance, q.analyticsHelper, q.account} \ {""}

\* a variant that keeps the letter case of the addresses
uniqueAddressesCaseKept(q) == eventAddresses(q.events) \cup knownAddresses(q)

\* uniqueAddresses: a Set of the lower-case forms
uniqueAddresses(q) ==
  {toLowerCase(a) : a \in eventAddresses(q.events) \cup knownAddresses(q)}

\* contracts.token.balanceOf(a).then(b => !b.isZero()).catch(() => false):
\* the ledger reads an address in any letter case
isHolder(q, a) ==
  toLowerCase(a) \notin q.rejected /\ q.balance[toLowerCase(a)] > 0

\* holdersCount after the batches
countHolders(q) == Cardinality({a \in uniqueAddresses(q) : isHolder(q, a)})

\* the addresses of the ledger of the model
LowerAddresses == {"0xa", "0xb"}

\* the most Transfer events in the scanned window
MaxTransfers == 2

TransferEvents ==
  {Transfer(f, t, TRUE) : f \in {AddressZero, "0xA", "0xa"},
                          t \in {AddressZero, "0xA", "0xb"}}
  \cup {Transfer(AddressZero, AddressZero, FALSE)}

\* the call of fetchTokenHoldersDirect: the events, the known addresses, the
\* balances on the ledger, the addresses whose balanceOf is rejected and the
\* number of probed common addresses that hold a balance
DirectCall(events, governance, analyticsHelper, account, balance, rejected, directHolders) ==
  [pc |-> "start", events |-> events, governance |-> governance,
   analyticsHelper |-> analyticsHelper, account |-> account,
   balance |-> balance, rejected |-> rejected, eventsOk |-> TRUE,
   holdersCount |-> 0, directHolders |-> directHolders,
   result |-> Holders(0, "none", {})]

FetchTokenHoldersDirect ==
  /\ dao.pc = "start"
  /\ LET counted == [dao EXCEPT !.holdersCount = countHolders(dao)]
     IN dao' = [counted EXCEPT !.pc = "done",
                               !.result = fetchTokenHoldersDirect(counted, {})]
  /\ UNCHANGED <<ledgerVars, web3Vars, voting, tabVars, tasks, tallyVars>>

InitDirect ==
  /\ InitSession
  /\ tallyIn = Answers(FALSE, FailedInt, FailedSeq, "", FailedBN, FailedSeq)
  /\ tallyOut = NotCalled
  /\ \E events \in SeqsUpTo(TransferEvents, MaxTransfers),
        governance \in {"", "0xb"}, analyticsHelper \in {"", "0xB"},
        account \in {"", "0xA"},
        balance \in [LowerAddresses -> {0, 5}],
        rejected \in SUBSET LowerAddresses,
        directHolders \in {0, 1} :
       dao = DirectCall(events, governance, analyticsHelper, account,
                        balance, rejected, directHolders)

SpecDirect == InitDirect /\ [][FetchTokenHoldersDirect]_vars

----------------------------------------------------------------------------
(* The write path next to the read path: castVote of any consumer while  *)
(* the read operations of both hooks are called                           *)

FrameReads ==
  {ReadCall("hasVoted", q) : q \in
     {s \in SessionAnswers : s.connected /\ s.hasAccount /\ s.hasGovernance
                             /\ s.voterInfo.ok /\ s.userEvents.ok
                             /\ s.snapshotId = 1 /\ s.current.ok
                             /\ s.result.ok /\ ~isZero(s.voterInfo.value)
                             /\ Len(s.userEvents.value) = 1}}
  \cup {ReadCall("getVoteDetails", q) : q \in
     {s \in SessionAnswers : s.connected /\ s.hasAccount /\ s.hasGovernance
                             /\ s.voterInfo.ok /\ s.userEvents.ok
                             /\ s.snapshotId = 1 /\ s.current.ok
                             /\ s.result.ok /\ ~isZero(s.voterInfo.value)
                             /\ Len(s.userEvents.value) = 1}}
  \cup {ReadCall("getVotingPower", q) : q \in
     {s \in SessionAnswers : s.connected /\ s.hasAccount /\ s.hasGovernance
                             /\ ~s.voterInfo.ok /\ ~s.userEvents.ok
                             /\ s.snapshotId = 0 /\ s.current.ok
                             /\ s.result.ok}}
  \cup {ReadCall("fetchSupplyData", q) : q \in
     {s \in SupplyAnswers : s.hasToken /\ s.hasAnalyticsHelper
                            /\ s.hasGovernance /\ s.totalSupply = Ok(1000)
                            /\ s.treasury = Ok(300)
                            /\ ~s.governanceBalance.ok}}
  \cup {ReadCall("fetchGovernanceMetrics", q) : q \in
     {s \in GovernanceReadAnswers :
        /\ s.hasAnalyticsHelper /\ s.proposalAnalytics.ok
        /\ s.tokenAnalytics = TokenAnalytics(TRUE, FALSE, BigNum(0))
        /\ s.snapshotId.ok /\ s.metrics.ok /\ s.metrics.length = 5
        /\ s.proposalAnalytics.avgVotingTurnout = BigNum(4500)}}
  \cup {ReadCall("holderCount", q) : q \in
     {s \in HolderReadAnswers :
        /\ s.hasTokenAddress /\ ~s.holderList.ok /\ ~s.tokenInfo.ok
        /\ s.eventsOk /\ s.holdersCount = 7 /\ s.directHolders = 0}}
  \cup {ReadCall("fetchProposalStats",
                 ProposalStatsCall(TRUE, FALSE, FailedBN, 0..1, {0}, FALSE))}

InitFrame ==
  /\ InitSession
  /\ tallyIn \in {Answers(TRUE, Ok(ACTIVE), Ok(<<VoteCast("0xA", FOR, BN(50))>>),
                          "0xA", Ok(BN(70)), Ok(<<[support |-> FOR]>>))}
  /\ tallyOut = NotCalled
  /\ dao \in FrameReads

NextFrame ==
  \/ \E p \in Proposals : CastVoteDirect(p, Num(FOR))
  \/ \E k \in InFlight : StepGetProposalState(k)
  \/ \E k \in InFlight : StepHasVoted(k)
  \/ \E k \in InFlight : StepGetProposalSnapshotId(k)
  \/ \E k \in InFlight : StepGetEffectiveVotingPower(k)
  \/ \E k \in InFlight : StepCastVote(k)
  \/ \E k \in InFlight : StepWait(k)
  \/ \E k \in InFlight : StepVerify(k)
  \/ Read
  \/ ReadProposalStats
  \/ GetProposalVoteTotals

SpecFrame == InitFrame /\ [][NextFrame]_vars

----------------------------------------------------------------------------
(* useDAOStats: loadDashboardData and the effect that calls it *)

\* the most runs of loadDashboardData in one session
MaxLoads == 5

\* dashboardStats: the fetched values are kept as the number of the run that
\* fetched them (0 for the initial values)
DashboardStats(fetchedBy, isLoading, message) ==
  [fetchedBy |-> fetchedBy, isLoading |-> isLoading,
   errorMessage |-> message]

\* the hook after its first render, before its effect: started counts the
\* runs, inFlight holds those that wait at Promise.all
Dashboard(connected) ==
  [pc |-> "mounted", connected |-> connected, started |-> 0, inFlight |-> {},
   stats |-> DashboardStats(0, TRUE, "")]

\* the effect: loadDashboardData up to its await when the session is
\* connected with contracts ready, else the reset of the flags
loadEffect(d) ==
  IF d.connected
  THEN [d EXCEPT !.pc = "running", !.started = @ + 1,
                 !.inFlight = @ \cup {d.started + 1},
                 !.stats = [@ EXCEPT !.isLoading = TRUE, !.errorMessage = ""]]
  ELSE [d EXCEPT !.pc = "running",
                 !.stats = [@ EXCEPT !.isLoading = TRUE,
                                     !.errorMessage = "Not connected to wallet"]]

\* the effect runs after the first render
Mount ==
  /\ dao.pc = "mounted"
  /\ dao' = loadEffect(dao)
  /\ UNCHANGED <<ledgerVars, web3Vars, voting, tabVars, tasks, tallyVars>>

\* refreshCounter or account changes: the effect runs again
Reload ==
  /\ dao.pc = "running"
  /\ dao.connected
  /\ dao.started < MaxLoads
  /\ dao' = loadEffect(dao)
  /\ UNCHANGED <<ledgerVars, web3Vars, voting, tabVars, tasks, tallyVars>>

\* isConnected and contractsReady change: the effect runs again
Reconnect ==
  /\ dao.pc = "running"
  /\ ~dao.connected \/ dao.started < MaxLoads
  /\ dao' = loadEffect([dao EXCEPT !.connected = ~@])
  /\ UNCHANGED <<ledgerVars, web3Vars, voting, tabVars, tasks, tallyVars>>

\* Promise.all of run r resolves (no fetch rejects): setDashboardStats of
\* the fetched values
LoadSettles ==
  /\ dao.pc = "running"
  /\ \E r \in dao.inFlight :
       dao' = [dao EXCEPT !.inFlight = @ \ {r},
                          !.stats = DashboardStats(r, FALSE, "")]
  /\ UNCHANGED <<ledgerVars, web3Vars, voting, tabVars, tasks, tallyVars>>

NextDashboard == Mount \/ Reload \/ Reconnect \/ LoadSettles

InitDashboard ==
  /\ InitSession
  /\ tallyIn = Answers(FALSE, FailedInt, FailedSeq, "", FailedBN, FailedSeq)
  /\ tallyOut = NotCalled
  /\ \E connected \in BOOLEAN : dao = Dashboard(connected)

SpecDashboard == InitDashboard /\ [][NextDashboard]_vars

----------------------------------------------------------------------------
(* Claims about submitVote and castVote *)

\* this step starts a submission of VoteTab on proposal p
Started(p) ==
  \E k \in BagToSet(tasks') :
    /\ k.proposalId = p
    /\ k.fromTab
    /\ k.pc = "getProposalState"
    /\ CopiesIn(k, tasks') > CopiesIn(k, tasks)

\* this step is the failure of submission k of VoteTab
Failed(k) == k.fromTab /\ tasks' = Settle(k) /\ voting'.error # ""

\* this step is the success of submission k of VoteTab
Succeeded(k) == k.fromTab /\ k.pc = "verify" /\ tasks' = Settle(k)

SameEntry(p) ==
  /\ (p \in DOMAIN votedProposals) = (p \in DOMAIN votedProposals')
  /\ p \in DOMAIN votedProposals => votedProposals'[p] = votedProposals[p]

Pending(p) == \E k \in InFlight : k.proposalId = p

\* C1: the optimistic entry of P is written when its submission starts; when
\* the castVote of P fails, P's entry is gone; and an entry of P appears
\* only when a submission on P starts or the reloaded proposals list says P
\* was voted, so that no proposal whose submission failed is in the map
C1_FailedVoteReadsUnvoted ==
  [][/\ \A p \in Proposals :
          Started(p) => p \in DOMAIN votedProposals'
     /\ \A k \in InFlight :
          Failed(k) => k.proposalId \notin DOMAIN votedProposals'
     /\ \A p \in Proposals :
          (p \notin DOMAIN votedProposals /\ p \in DOMAIN votedProposals')
            => (Started(p) \/ proposals'[p].hasVoted)]_vars

\* C2: at most one vote submission is in flight at any time
C2_OneSubmissionInFlight == BagCardinality(tasks) <= 1

\* C3: when castVote(P, s) succeeds the entry of P is s, and the failure of
\* a submission on another proposal Q leaves the entry of P as it was
C3_EntriesChangeWholeAndOwn ==
  [][/\ \A k \in InFlight :
          Succeeded(k) =>
            /\ k.proposalId \in DOMAIN votedProposals'
            /\ votedProposals'[k.proposalId] = Number(k.voteType)
     /\ \A k \in InFlight :
          Failed(k) => \A p \in Proposals \ {k.proposalId} : SameEntry(p)]_vars

\* C4: every submitted vote eventually settles, whatever the ledger delivers:
\* voting.loading becomes false again, and a submission on P that is alone in
\* flight leaves the pending state (or another submission joins it)
C4_EveryVoteSettles ==
  /\ voting.loading ~> ~voting.loading
  /\ \A p \in Proposals :
       (Pending(p) /\ BagCardinality(tasks) = 1)
         ~> (~Pending(p) \/ BagCardinality(tasks) > 1)

\* a transaction of invocation k has been submitted
Submitted(k) == k.pc \in {"wait", "verify"}

\* this step starts an invocation of castVote
Invoked ==
  \E k \in BagToSet(tasks') : CopiesIn(k, tasks') > CopiesIn(k, tasks)
                                /\ k.pc = "getProposalState"

\* C5: castVote submits the transaction only if, in that invocation, the
\* session was connected with contracts ready, the vote type is 0, 1 or 2,
\* getProposalState returned Active and the voting power read at the
\* resolved snapshot is not zero; an invocation that reads a zero voting
\* power ends with an error and no transaction
C5_SubmitsOnlyAfterValidation ==
  /\ [](\A k \in InFlight :
          (k.pc = "castVote" \/ Submitted(k)) =>
            /\ Number(k.voteType) \in {AGAINST, FOR, ABSTAIN}
            /\ k.proposalState = ACTIVE
            /\ ~isZero(k.votingPower))
  /\ [][/\ Invoked => (isConnected /\ contractsReady)
        /\ \A k \in InFlight :
             (/\ k.pc = "getEffectiveVotingPower"
              /\ isZero(power[k.snapshotId])
              /\ CopiesIn(k, tasks') < CopiesIn(k, tasks))
               => /\ tasks' = Settle(k)
                  /\ voting'.error \in {errorMessage(NoVotingPowerError),
                                        errorMessage(UpstreamError)}]_vars

\* C5 witness: one invocation has its transaction submitted, and another one
\* has ended with the no-voting-power error
C5_Witness ==
  /\ \E k \in InFlight : k.pc = "wait" /\ ~isZero(k.votingPower)
  /\ voting.error = errorMessage(NoVotingPowerError)

\* C6: castVote never submits a transaction for a proposal on which the
\* ledger holds a vote record of the account
C6_NoTransactionWhenAlreadyVoted ==
  [][\A k \in InFlight :
       (k.pc = "castVote" /\ tasks' = Resume(k, [k EXCEPT !.pc = "wait"]))
         => k.proposalId \notin DOMAIN ledgerVotes]_vars

----------------------------------------------------------------------------
(* Claims about getProposalVoteTotals *)

\* the logs without the events that repeat an earlier event exactly
RECURSIVE withoutRepeats(_)
withoutRepeats(logs) ==
  IF logs = <<>> THEN <<>>
  ELSE LET n == Len(logs)
           front == SubSeq(logs, 1, n - 1)
       IN IF \E i \in 1..(n - 1) : logs[i] = logs[n]
          THEN withoutRepeats(front)
          ELSE Append(withoutRepeats(front), logs[n])

\* the call has returned the tally of a sequence of logs
TalliedLogs ==
  /\ tallyOut.done
  /\ tallyIn.hasProvider
  /\ tallyIn.state.ok
  /\ tallyIn.logs.ok

\* the logs of the example of the specification
DuplicateExample ==
  <<VoteCast("0xA", FOR, BN(100)), VoteCast("0xB", AGAINST, BN(50)),
    VoteCast("0xA", FOR, BN(100))>>

\* C7: no voter is counted twice: an event that repeats an earlier event
\* adds nothing to the tally, and the logs (A, For, 100), (B, Against, 50),
\* (A, For, 100) give yes 100, no 50, abstain 0 and two voters
C7_DuplicateEventsAddNothing ==
  TalliedLogs =>
    /\ tallyOut.result =
         getProposalVoteTotals(
           [tallyIn EXCEPT !.logs.value = withoutRepeats(@)])
    /\ tallyIn.logs.value = DuplicateExample =>
         /\ tallyOut.result.yesVotes = 100
         /\ tallyOut.result.noVotes = 50
         /\ tallyOut.result.abstainVotes = 0
         /\ tallyOut.result.totalVoters = 2

\* the sum of f[v] over the voters v of S
RECURSIVE SumWeights(_, _)
SumWeights(S, f) ==
  IF S = {} THEN 0
  ELSE LET v == CHOOSE x \in S : TRUE
       IN f[v] + SumWeights(S \ {v}, f)

\* every log decodes to a choice of 0, 1 or 2 and a weight toNumber accepts
AllLogsValid(logs) ==
  \A i \in 1..Len(logs) :
    logs[i].support \in {AGAINST, FOR, ABSTAIN} /\ logs[i].votingPower.safe

\* the events of one voter all differ in their choice
DifferentChoices(logs) ==
  \A i, j \in 1..Len(logs) :
    (i < j /\ toLowerCase(logs[i].voter) = toLowerCase(logs[j].voter))
      => logs[i].support # logs[j].support

\* C8: a voter with several events of different choices is in the tally
\* once, with the weight and in the bucket of its last event, and the three
\* buckets add up to one weight per counted voter
C8_LastVoteCountsOnce ==
  (/\ TalliedLogs
   /\ AllLogsValid(tallyIn.logs.value)
   /\ DifferentChoices(tallyIn.logs.value)) =>
    LET logs == tallyIn.logs.value
        counted == {toLowerCase(logs[i].voter) : i \in 1..Len(logs)}
        last == [v \in counted |->
                   logs[CHOOSE i \in 1..Len(logs) :
                          /\ toLowerCase(logs[i].voter) = v
                          /\ \A j \in (i + 1)..Len(logs) :
                               toLowerCase(logs[j].voter) # v]]
        bucket(s) ==
          SumWeights({v \in counted : last[v].support = s},
                     [v \in counted |-> last[v].votingPower.n])
    IN /\ tallyOut.result.yesVotes = bucket(FOR)
       /\ tallyOut.result.noVotes = bucket(AGAINST)
       /\ tallyOut.result.abstainVotes = bucket(ABSTAIN)
       /\ tallyOut.result.totalVoters = Cardinality(counted)
       /\ tallyOut.result.totalVotes =
            SumWeights(counted, [v \in counted |-> last[v].votingPower.n])

\* the tally of the general logs alone, before the account is looked at
logTally == processLogs(NoVotes, tallyIn.logs.value)

\* the connected account is among the voters counted from the general logs,
\* and the ledger holds a vote record of it
AccountInLogs ==
  /\ TalliedLogs
  /\ tallyIn.account # ""
  /\ toLowerCase(tallyIn.account) \in logTally.voters
  /\ tallyIn.voterInfo.ok
  /\ ~isZero(tallyIn.voterInfo.value)

C10_AccountAlwaysFoldedIn ==
  (/\ TalliedLogs
   /\ tallyIn.account # ""
   /\ toLowerCase(tallyIn.account) \notin logTally.voters
   /\ tallyIn.voterInfo.ok
   /\ ~isZero(tallyIn.voterInfo.value)
   /\ tallyIn.voterInfo.value.safe
   /\ tallyIn.userEvents.ok
   /\ \A i \in 1..Len(tallyIn.userEvents.value) :
        tallyIn.userEvents.value[i].support \in {AGAINST, FOR, ABSTAIN}) =>
    /\ tallyOut.result.totalVoters = Cardinality(logTally.voters) + 1
    /\ tallyOut.result.totalVotes =
         tallyResult(logTally).totalVotes + tallyIn.voterInfo.value.n

----------------------------------------------------------------------------
(* Claims about the returned tally objects *)

\* the state query of the proposal failed in a call that had a provider
MissingProposal ==
  /\ tallyOut.done
  /\ tallyIn.hasProvider
  /\ ~tallyIn.state.ok

\* C11 as stated: when getProposalState fails, getProposalVoteTotals does
\* not return a tally (it fails), and it fetches no logs
C11_MissingProposalFails ==
  MissingProposal =>
    /\ "totalVotes" \notin DOMAIN tallyOut.result
    /\ ~tallyOut.logsFetched

\* C11 amended: when getProposalState fails, getProposalVoteTotals returns
\* the tally of five zero counts, whatever the logs hold, and fetches no logs
C11_MissingProposalGivesZeroTally ==
  MissingProposal =>
    /\ tallyOut.result = earlyZeroTally
    /\ ~tallyOut.logsFetched

\* C11 witness: the state query failed for a proposal that has a valid log
C11_Witness ==
  /\ MissingProposal
  /\ tallyIn.logs.ok
  /\ Len(tallyIn.logs.value) = 1
  /\ AllLogsValid(tallyIn.logs.value)

\* the three percentages of r are present, add up to 100 when totalVotes is
\* positive, and are 0 when it is 0
PercentagesSound(r) ==
  /\ {"yesPercentage", "noPercentage", "abstainPercentage"} \subseteq DOMAIN r
  /\ IF r.totalVotes > 0
     THEN /\ r.yesPercentage.over = r.totalVotes
          /\ r.noPercentage.over = r.totalVotes
          /\ r.abstainPercentage.over = r.totalVotes
          /\ r.yesPercentage.times100 + r.noPercentage.times100
               + r.abstainPercentage.times100 = 100 * r.totalVotes
     ELSE /\ r.yesPercentage = ZeroPercentage
          /\ r.noPercentage = ZeroPercentage
          /\ r.abstainPercentage = ZeroPercentage

\* C12: every object returned by getProposalVoteTotals, on every path, and
\* by calculateVotePercentages has percentages that add up to 100 when
\* totalVotes > 0 and three percentage fields equal to 0 when totalVotes = 0
C12_PercentagesSumTo100 ==
  /\ tallyOut.done => PercentagesSound(tallyOut.result)
  /\ \A proposal \in ProposalVoteData :
       PercentagesSound(calculateVotePercentages(proposal))

----------------------------------------------------------------------------
(* Claims about fetchProposalStats *)

\* the count a linear existence scan from id 0 gives: the first id that
\* does not exist
linearScan(existing) ==
  LET n == Cardinality(existing)
  IN IF 0..(n - 1) \subseteq existing THEN n
     ELSE CHOOSE i \in 0..n :
            i \notin existing /\ \A j \in 0..(i - 1) : j \in existing

\* C14: with no usable direct count and the existing ids exactly 0..n-1,
\* 0 <= n <= UPPER_BOUND + 1, the binary search gives totalProposals = n,
\* the count of a linear existence scan from id 0
C14_SearchFindsCount ==
  (dao.pc = "done" /\ dao.searched) =>
    /\ dao.totalProposals = Cardinality(dao.existing)
    /\ dao.totalProposals = linearScan(dao.existing)

\* C14 witness: the search has run on the ids {0, 1, 2, 3, 4} and gave 5
C14_Witness ==
  /\ dao.pc = "done"
  /\ dao.searched
  /\ dao.existing = 0..4
  /\ dao.totalProposals = 5

\* getProposalCount exists and has returned a number n
DirectCountReturned ==
  /\ dao.pc = "done"
  /\ dao.hasGovernance
  /\ dao.hasCount
  /\ dao.count.ok
  /\ dao.count.value.safe

C16_SearchEndsWithinTenProbes ==
  /\ [](dao.probes <= 10)
  /\ [][dao.pc = "search" =>
          /\ dao'.low >= dao.low
          /\ dao'.high <= dao.high
          /\ dao'.high - dao'.low < dao.high - dao.low]_vars
  /\ <>(dao.pc = "done")

\* C16 witness: a search that took 10 probes has ended
C16_Witness ==
  /\ dao.pc = "done"
  /\ dao.anyAnswer
  /\ dao.probes = 10

----------------------------------------------------------------------------
(* Claims about the fallback chains of useDAOStats *)

\* C17: fetchTokenHoldersFromEtherscan returns the length of the Etherscan
\* holder list when that list is there and not empty, and returns the seeded
\* default 4 only after the earlier strategies, the on-chain enumeration
\* fetchTokenHoldersDirect among them, have been tried
C17_DefaultOnlyAfterAllStrategies ==
  dao.pc = "done" =>
    /\ (/\ dao.hasTokenAddress
        /\ holderListUsable(dao.holderList)
        /\ dao.holderList.isArray
        /\ dao.holderList.length > 0)
         => dao.result.value = dao.holderList.length
    /\ (dao.hasTokenAddress /\ dao.result.source = "default")
         => "direct" \in dao.result.tried

\* the analytics helper strategy supplies no delegation rate
NoAnalyticsDelegation ==
  \/ ~dao.hasAnalyticsHelper
  \/ readProposalAnalytics(dao, defaultRates).threw
  \/ ~dao.tokenAnalytics.ok
  \/ dao.tokenAnalytics.isNull
  \/ dao.tokenAnalytics.percentageDelegated = Missing

\* C18: when the analytics helper supplies no delegation rate and the
\* snapshot strategy has a plausible one, fetchGovernanceMetrics returns the
\* rate of the snapshot strategy
C18_SnapshotRateWhenAnalyticsFails ==
  (/\ dao.pc = "done"
   /\ NoAnalyticsDelegation
   /\ snapshotDelegation(dao).found
   /\ ~implausible(snapshotDelegation(dao).rate)
   /\ ~snapshotDelegation(dao).rate.nan)
    => dao.result.delegationRate = snapshotDelegation(dao).rate

\* 0.01 < r <= 1 for a rate that is a number
InRange(r) == ~r.nan /\ r.bps > 100 /\ r.bps <= 10000

RateFields == {"participationRate", "delegationRate", "proposalSuccessRate"}

\* C19: whatever upstream answers, each rate fetchGovernanceMetrics returns
\* is a number with 0.01 < r <= 1; a rate that would be outside that range
\* or not a number is replaced by its default, and a plausible one is
\* returned as upstream gave it
C19_RatesPlausibleOrDefault ==
  dao.pc = "done" =>
    /\ \A f \in RateFields :
         /\ InRange(dao.result[f])
         /\ dao.result[f] = IF InRange(dao.raw[f]) THEN dao.raw[f]
                            ELSE defaultRates[f]
    /\ (/\ dao.hasAnalyticsHelper
        /\ dao.proposalAnalytics.ok
        /\ ~dao.proposalAnalytics.isNull
        /\ ~toNumberThrows(dao.proposalAnalytics.avgVotingTurnout)
        /\ InRange(toRate(dao.proposalAnalytics.avgVotingTurnout, 1)))
         => dao.result.participationRate =
              toRate(dao.proposalAnalytics.avgVotingTurnout, 1)
    /\ (/\ dao.hasAnalyticsHelper
        /\ ~readProposalAnalytics(dao, defaultRates).threw
        /\ dao.tokenAnalytics.ok
        /\ ~dao.tokenAnalytics.isNull
        /\ truthy(dao.tokenAnalytics.percentageDelegated)
        /\ ~toNumberThrows(dao.tokenAnalytics.percentageDelegated)
        /\ InRange(toRate(dao.tokenAnalytics.percentageDelegated, 1)))
         => dao.result.delegationRate =
              toRate(dao.tokenAnalytics.percentageDelegated, 1)

\* a call that read a turnout of exactly 1%, a plausible delegation rate and
\* a success rate that is no number
C19_Witness ==
  /\ dao.pc = "done"
  /\ dao.raw.participationRate = Rate(100)
  /\ dao.raw.delegationRate = Rate(4500)
  /\ dao.raw.proposalSuccessRate.nan
  /\ dao.result = Rates(Rate(2700), Rate(4500), Rate(7300))

----------------------------------------------------------------------------
(* Claims about getProposalSnapshotId *)

\* the first creation event of the call is there and decodes
FirstEventDecodes ==
  /\ dao.events.ok
  /\ Len(dao.events.value) > 0
  /\ dao.events.value[1].decodes

\* C20: getProposalSnapshotId returns the snapshot id of the first creation
\* event when that event is there and decodes; when the event is absent or
\* does not decode or the event query fails, it returns the current snapshot
\* id; it returns 0 only when the governance contract is missing or the
\* query of the current snapshot id fails too
C20_EventIdThenCurrentIdThenZero ==
  dao.pc = "done" =>
    /\ (dao.hasGovernance /\ FirstEventDecodes)
         => dao.result = dao.events.value[1].snapshotId
    /\ (dao.hasGovernance /\ ~FirstEventDecodes /\ dao.current1.ok)
         => dao.result = dao.current1.value
    /\ dao.result = 0
         => (~dao.hasGovernance \/ (~FirstEventDecodes /\ ~dao.current1.ok))

\* a call whose first event does not decode while a later one does, answered
\* with the current snapshot id
C20_Witness ==
  /\ dao.pc = "done"
  /\ dao.hasGovernance
  /\ dao.events.ok
  /\ Len(dao.events.value) = 2
  /\ ~dao.events.value[1].decodes
  /\ dao.events.value[2].decodes
  /\ dao.current1.ok
  /\ dao.result = dao.current1.value

----------------------------------------------------------------------------
(* Claims about the read path *)

\* every call the read made failed, or could not be made
EveryCallFailed ==
  CASE dao.op = "hasVoted" -> ~dao.voterInfo.ok
    [] dao.op = "getVotingPower" ->
         (dao.snapshotId = 0 /\ ~dao.current.ok) \/ ~dao.result.ok
    [] dao.op = "getVoteDetails" -> ~dao.voterInfo.ok
    [] dao.op = "getProposalVoteTotals" ->
         ~dao.hasProvider \/ ~dao.state.ok \/ ~dao.logs.ok
    [] dao.op = "fetchSupplyData" -> ~dao.hasToken \/ ~dao.totalSupply.ok
    [] dao.op = "fetchGovernanceMetrics" ->
         /\ ~dao.hasAnalyticsHelper \/ ~dao.proposalAnalytics.ok
         /\ ~dao.snapshotId.ok
    [] dao.op = "holderCount" ->
         ~dao.holderList.ok /\ ~dao.tokenInfo.ok /\ ~dao.eventsOk
    [] dao.op = "fetchProposalStats" ->
         ~dao.hasGovernance \/ (~dao.count.ok /\ dao.existing = {})

\* the value the read degrades to
IsDefault(v) ==
  CASE dao.op = "hasVoted" -> v = FALSE
    [] dao.op = "getVotingPower" -> v = BN(0)
    [] dao.op = "getVoteDetails" -> v = noVoteDetails
    [] dao.op = "getProposalVoteTotals" ->
         /\ v.yesVotes = 0 /\ v.noVotes = 0 /\ v.abstainVotes = 0
         /\ v.totalVotes = 0 /\ v.totalVoters = 0
    [] dao.op = "fetchSupplyData" -> v = Supplies(0, 0, FALSE)
    [] dao.op = "fetchGovernanceMetrics" -> v = defaultRates
    [] dao.op = "holderCount" -> v > 0

\* C21: no read operation throws to its caller, whichever of its calls fail;
\* when they fail getVotingPower returns "0", hasVoted false, getVoteDetails
\* the unvoted details, getProposalVoteTotals a zero tally, fetchProposalStats
\* {0, 0}, fetchSupplyData "0" supplies and fetchGovernanceMetrics its
\* defaults, and the holder count is positive always
C21_ReadsNeverThrow ==
  dao.pc = "done" =>
    IF dao.op = "fetchProposalStats"
    THEN EveryCallFailed =>
           (dao.totalProposals = 0 /\ dao.activeProposals = 0)
    ELSE /\ ~dao.outcome.threw
         /\ (EveryCallFailed \/ dao.op = "holderCount")
              => IsDefault(dao.outcome.value)

\* a read in a live session whose calls all failed, and that returned
C21_Witness ==
  /\ dao.pc = "done"
  /\ dao.op \in {"getVotingPower", "getVoteDetails", "fetchSupplyData"}
  /\ "connected" \in DOMAIN dao => (dao.connected /\ dao.hasAccount /\ dao.hasToken)
  /\ "totalSupply" \in DOMAIN dao => dao.hasToken
  /\ EveryCallFailed
  /\ ~dao.outcome.threw

----------------------------------------------------------------------------
(* Claims about the failure and the reset of castVote *)

\* the errors castVote can meet at the await it waits at
ErrorsAt(k) ==
  CASE k.pc = "getProposalState" -> {UpstreamError, InactiveProposalError}
    [] k.pc = "hasVoted" -> {AlreadyVotedError}
    [] k.pc = "getEffectiveVotingPower" -> {UpstreamError, NoVotingPowerError}
    [] k.pc = "castVote" -> {RejectedError, EncodeError}
    [] k.pc = "wait" -> {RevertError}
    [] OTHER -> {}

\* the reason string of an error: its reason, else its message
reasonString(err) == IF err.reason # "" THEN err.reason ELSE err.message

\* this step is the end of invocation k without a success
FailsNow(k) == tasks' = Settle(k) /\ voting' # votingSuccess(k.proposalId)

\* C22: when castVote fails at a step after it has started, the voting state
\* becomes {loading: false, error: the reason string of the error, success:
\* false, lastVotedProposalId: null}, and the optimistic entry of the
\* proposal is rolled back by the caller, to whom the error is thrown
C22_FailureSetsErrorAndRollsBack ==
  [][\A k \in InFlight :
       FailsNow(k) =>
         /\ \E err \in ErrorsAt(k) :
              voting' = [loading |-> FALSE, error |-> reasonString(err),
                         success |-> FALSE, lastVotedProposalId |-> NoProposal]
         /\ k.fromTab => k.proposalId \notin DOMAIN votedProposals']_vars

\* a vote of VoteTab on proposal 0 has reverted: the reason is shown and the
\* entry is gone
C22_Witness ==
  /\ voting = [loading |-> FALSE, error |-> "execution reverted",
               success |-> FALSE, lastVotedProposalId |-> NoProposal]
  /\ tasks = EmptyBag
  /\ 0 \notin DOMAIN votedProposals
  /\ 0 \notin DOMAIN ledgerVotes

\* C23: when refreshCounter (or the account or the connection) changes, the
\* voting state is reset, and a castVote started before the change writes
\* nothing into the voting state or the optimistic map after the reset
C23_ResetDiscardsEarlierVotes ==
  [][/\ refreshCounter' # refreshCounter => voting' = votingInitial
     /\ voting = votingInitial =>
          \A k \in InFlight :
            tasks' = Settle(k) =>
              (voting' = voting /\ votedProposals' = votedProposals)]_vars

----------------------------------------------------------------------------
(* Claims about fetchTokenHoldersDirect *)

\* C24: during the batched balance check at most 10 balanceOf queries are in
\* flight, no query of a batch is sent before every query of the batches
\* before it has settled, and a rejected balanceOf counts as a non-holder
\* without ending the check: every address is queried and the count is the
\* number of non-zero answers
C24_BatchesOfTenInSequence ==
  /\ Cardinality(dao.pending) <= 10
  /\ dao.pending \subseteq dao.i..(dao.i + 9)
  /\ dao.pending # {} => dao.issued = Cardinality(0..(dao.i + 9) \cap 0..(dao.n - 1))
  /\ dao.pc = "done" =>
       /\ dao.issued = dao.n
       /\ dao.holdersCount = dao.nonZero

\* the second batch is in flight after a first batch in which a balanceOf was
\* rejected
C24_Witness ==
  /\ dao.pc = "batch"
  /\ dao.i = 10
  /\ dao.pending # {}
  /\ dao.failures > 0
  /\ dao.holdersCount > 0

\* the distinct candidates of the call: the addresses of the ledger that
\* occur, in some letter case, in an event with arguments or as a known
\* address
Candidates ==
  {a \in LowerAddresses :
     \/ \E j \in 1..Len(dao.events) :
          /\ dao.events[j].hasArgs
          /\ a \in {toLowerCase(dao.events[j].from),
                    toLowerCase(dao.events[j].to)}
     \/ a \in {toLowerCase(dao.governance), toLowerCase(dao.analyticsHelper),
               toLowerCase(dao.account)}}

\* C25 as stated: when a candidate has a balance, fetchTokenHoldersDirect
\* returns the number of distinct candidates that have a balance
C25_CountsCandidatesWithBalance ==
  (dao.pc = "done" /\ \E a \in Candidates : dao.balance[a] > 0)
    => dao.result.value = Cardinality({a \in Candidates : dao.balance[a] > 0})

\* C25: when the balanceOf query of a candidate answers with a non-zero
\* balance, fetchTokenHoldersDirect returns the number of distinct candidates
\* whose query answers so; an address in several events, in different letter
\* case or both in an event and known is counted once
C25_CountsCandidatesAnsweringNonZero ==
  (/\ dao.pc = "done"
   /\ \E a \in Candidates : a \notin dao.rejected /\ dao.balance[a] > 0)
    => dao.result.value =
         Cardinality({a \in Candidates :
                        a \notin dao.rejected /\ dao.balance[a] > 0})

\* the account holds a balance, is in two events in two letter cases and is
\* counted once
C25_Witness ==
  /\ dao.pc = "done"
  /\ Len(dao.events) = 2
  /\ dao.events[1].from = "0xA"
  /\ dao.events[2].from = "0xa"
  /\ dao.account = "0xA"
  /\ dao.balance["0xa"] > 0
  /\ dao.rejected = {}
  /\ dao.balance["0xb"] = 0
  /\ dao.result.value = 1

----------------------------------------------------------------------------
(* Claims about the write path *)

\* the position of an await in castVote
rank(pc) ==
  CASE pc = "getProposalState" -> 0
    [] pc = "hasVoted" -> 1
    [] pc = "getProposalSnapshotId" -> 2
    [] pc = "getEffectiveVotingPower" -> 3
    [] pc = "castVote" -> 4
    [] pc = "wait" -> 5
    [] pc = "verify" -> 6

\* C26: the ledger changes only by the transaction of a castVote invocation
\* that waits for its receipt; an invocation only moves forward from one
\* await to the next or ends, so that it submits at most one transaction and
\* none after a failure; the read operations of useVoting and useDAOStats
\* leave the ledger and the invocations as they are
C26_OnlyCastVoteWritesOnce ==
  [][/\ ledgerVars' # ledgerVars =>
          \E k \in InFlight :
            /\ k.pc = "wait"
            /\ tasks' = Resume(k, [k EXCEPT !.pc = "verify"])
            /\ ledgerVotes' = Put(ledgerVotes, k.proposalId, Number(k.voteType))
            /\ ledgerState' = ledgerState
            /\ power' = power
     /\ tasks' # tasks =>
          \/ \E k2 \in BagToSet(tasks') :
               k2.pc = "getProposalState" /\ tasks' = tasks (+) SetToBag({k2})
          \/ \E k \in InFlight : tasks' = Settle(k)
          \/ \E k \in InFlight, k2 \in BagToSet(tasks') :
               /\ tasks' = Resume(k, k2)
               /\ rank(k2.pc) = rank(k.pc) + 1
               /\ k2.proposalId = k.proposalId
     /\ (dao' # dao \/ tallyOut' # tallyOut) =>
          (ledgerVars' = ledgerVars /\ tasks' = tasks)]_vars

\* a vote on proposal 0 is on the ledger, another invocation for it has
\* reverted, and the reads have returned
C26_Witness ==
  /\ 0 \in DOMAIN ledgerVotes
  /\ voting.error = "execution reverted"
  /\ tasks = EmptyBag
  /\ dao.pc = "done"
  /\ tallyOut.done

----------------------------------------------------------------------------
(* Claims about the proposal count on a ledger with gaps *)

\* the existing ids are not 0..n-1 for any n
HasGaps(existing) == \E i \in existing : \E j \in 0..i : j \notin existing

\* C27: when the existing proposal ids are not contiguous from 0, the
\* totalProposals the binary search finds is not greater than the number of
\* existing proposals
C27_SearchOnlyUndercounts ==
  (dao.pc = "done" /\ dao.searched /\ HasGaps(dao.existing))
    => dao.totalProposals <= Cardinality(dao.existing)

----------------------------------------------------------------------------
(* Claims about loadDashboardData *)

\* C28: when runs of loadDashboardData overlap, the result of a superseded
\* run is discarded: once every run has settled dashboardStats holds the
\* values of the run started last, and isLoading is false only when no run
\* is in flight
C28_LatestLoadWins ==
  /\ (dao.started > 0 /\ dao.inFlight = {})
       => dao.stats.fetchedBy = dao.started
  /\ ~dao.stats.isLoading => dao.inFlight = {}

----------------------------------------------------------------------------
(* Claims about the weights and the choices of the logs *)

\* the distinct voters of the logs
LogVoters(logs) == {toLowerCase(logs[i].voter) : i \in 1..Len(logs)}

\* C29: every parsed VoteCast log contributes its voter and its weight to
\* the tally whatever the magnitude of the weight: with no account
\* connected, the voters counted are the voters of the logs, also of the
\* logs whose weight is above the safe-integer limit
C29_LargeWeightsAreCounted ==
  (TalliedLogs /\ tallyIn.account = "")
    => tallyOut.result.totalVoters = Cardinality(LogVoters(tallyIn.logs.value))

\* C30: every log adds its voter and its weight together or neither, so that
\* with positive weights a tally that counts a voter counts votes, also for
\* logs whose choice is not 0, 1 or 2
C30_VotersImplyVotes ==
  (TalliedLogs /\ tallyIn.account = "")
    => (tallyOut.result.totalVoters > 0 => tallyOut.result.totalVotes > 0)

====
